---- MODULE Spec2Model ----
(***************************************************************************)
(* Caption reconstruction benchmark: the sequence model (data_models.py),  *)
(* the masking engine (masking.py), the reconstruction strategies and      *)
(* their result object (reconstruction_strategies.py), the oracle client   *)
(* (llm_interaction.py, parsers.py, prompting.py), the evaluator           *)
(* (evaluation.py) and the experiment runner (experiment_runner.py).       *)
(*                                                                         *)
(* Python lists are 0-based, TLA+ sequences 1-based: the clip at Python    *)
(* position i is cl[i + 1].  Python's None is the value None below.        *)
(***************************************************************************)
EXTENDS Integers, Sequences, FiniteSets, TLC

VARIABLES
    clips,            \* list[CaptionedClip] handed to CaptionedVideo(...)
    video,            \* the CaptionedVideo built from it, or the error raised
    strategy,         \* the MaskingStrategy instance of the run
    twin,             \* a second instance built from the same spec and seed
    calls,            \* index sets strategy._get_indices_to_mask returned so far
    twin_calls,       \* the same for the twin instance
    generators,       \* the random.Random objects: generators[ref] is the
                      \* stream of raw draws the object has not consumed yet
    masked_video,     \* first component of the last mask_video(video)
    masked_indices,   \* second component of the last mask_video(video)
    applied,          \* result of the last strategy.apply(video.clips)
    reconstructed,    \* result of BaselineRepeatStrategy.reconstruct(masked_video)
    num_clips,        \* length handed to _get_indices_to_mask in the sweep
    masking_configs,  \* the partition sweep spec given to get_masking_strategies
    strategies,       \* the list get_masking_strategies returned
    masks,            \* masks[i]: index set of strategies[i] on num_clips
    llm_model,        \* the LLM_Manager: base_cache_key and last_raw_response
    disk_cache,       \* the diskcache.Cache it was given: cache key -> response text
    invocations,      \* prompts handed to llm.generate_content so far, in order
    llm_calls,        \* LLM_Manager.call operations so far: prompt and outcome
    llm_step,         \* what the prompt builder and the oracle did in the last
                      \* LLMStrategy.reconstruct
    heap,             \* Reconstructed objects by reference: heap[ref] holds the
                      \* fields of the object
    returned,         \* references skip and with_metrics returned, in order
    history,          \* the skip and with_metrics calls made, in order
    aligned,          \* result of Reconstructed.align(video.clips)
    evaluated,        \* result of ReconstructionEvaluator.evaluate
    scorer_calls,     \* (cands, refs) handed to bert_scorer.score, in order
    recon_strategy,   \* the reconstruction strategy of the run
    all_videos,       \* what data_loader.load() returned
    position,         \* position in all_videos of the video run() is at
    all_metrics,      \* run(): the list all_metrics
    all_recon_videos, \* run(): the list all_recon_videos
    run_result,       \* what run() returned or raised, once it has ended
    run_calls,        \* run(): per video passed, whether reconstruct and
                      \* evaluate were invoked for it
    lock,             \* the processes holding the exclusive lock on the lock file
    lock_file,        \* per orchestrator process: whether its lock file is open
    pc,               \* per orchestrator process: where it is in main()
    batch             \* per orchestrator process: the experiments of its batch
                      \* and how many runner.run() calls have ended

llm_vars == <<llm_model, disk_cache, invocations, llm_calls, llm_step>>

eval_vars == <<heap, returned, history, aligned, evaluated, scorer_calls>>

run_vars == <<recon_strategy, all_videos, position, all_metrics, all_recon_videos,
              run_result, run_calls>>

lock_vars == <<lock, lock_file, pc, batch>>

vars == <<clips, video, strategy, twin, calls, twin_calls, generators, masked_video,
          masked_indices, applied, reconstructed, num_clips, masking_configs,
          strategies, masks, llm_vars, eval_vars, run_vars, lock_vars>>

----------------------------------------------------------------------------
\* Bounds of the model.
MaxClips == 3        \* longest clip list of a video
MaxCalls == 2        \* applications of one strategy instance that are followed
StreamLen == 4       \* raw draws of a generator that are followed
RatioDen == 4        \* ratios are the multiples of 1/RatioDen in [0, 1]
MaxNumClips == 10    \* longest sequence length in the partition specifications
MaxPartitions == 5   \* largest num_partitions
MaxSweepLen == 2     \* longest num_parts_to_mask list of a sweep spec
MaxItems == 2        \* longest list of items in an oracle response
MaxVideos == 2       \* longest list of videos a data loader returns
MaxProcs == 2        \* orchestrator processes started concurrently
MaxRuns == 2         \* most experiments in one batch

None == "None"                 \* a caption that is None
NoneObj == [kind |-> "None"]   \* None where an object or a set is expected
Unset == [kind |-> "unset"]    \* not assigned yet
Captions == {"A", "B"}
VideoIds == {"v1"}

Range(lo, hi) == lo .. (hi - 1)                       \* Python range(lo, hi)
Min(S) == CHOOSE x \in S : \A y \in S : x <= y
SeqsUpTo(S, n) == UNION {[1 .. m -> S] : m \in 0 .. n}

----------------------------------------------------------------------------
\* data_models.py

\* start and duration are whole seconds here: round(value, 3) leaves them as
\* they are and ge=0 accepts them.
TimestampRange(start, duration) == [start |-> start, duration |-> duration]

CaptionedClip(index, timestamp, caption) ==
    [index |-> index, timestamp |-> timestamp, caption |-> caption]

RECURSIVE check_from(_, _)
check_from(cl, i) ==
    IF i >= Len(cl) THEN [kind |-> "ok"]
    ELSE IF cl[i + 1].index # i
         THEN [kind |-> "ValueError", position |-> i, got |-> cl[i + 1].index]
         ELSE check_from(cl, i + 1)

\* Faulty variant: the scan starts at position 1.
check_indices_skip_first(cl) == check_from(cl, 1)

check_indices_are_sequential(cl) == check_from(cl, 0)

CaptionedVideo(video_id, cl) ==
    LET r == check_indices_are_sequential(cl)
    IN  IF r.kind = "ok"
        THEN [kind |-> "video", video_id |-> video_id, clips |-> cl]
        ELSE r

\* Clip lists as a caller may hand them over: any index at any position.
\* The timestamp is the one ToyDataLoader gives position i.
ClipAt(i) ==
    {CaptionedClip(ix, TimestampRange(i, 1), c) : ix \in 0 .. MaxClips, c \in Captions}
ClipLists ==
    UNION {{cl \in [1 .. m -> UNION {ClipAt(i) : i \in 0 .. m}] :
               \A p \in 1 .. m : cl[p].timestamp.start = p - 1} : m \in 0 .. MaxClips}

Sequential(cl) == \A i \in 0 .. Len(cl) - 1 : cl[i + 1].index = i

\* Videos as the data loaders build them: index = position, every caption a
\* string.
LoadedVideos ==
    {CaptionedVideo(vid, cl) : vid \in VideoIds,
        cl \in {c \in ClipLists : Sequential(c)}}

----------------------------------------------------------------------------
\* random.Random as masking.py uses it.  A generator object is the stream of
\* raw draws its seed determines; each draw is consumed once, so the state of
\* the object advances with every use and is never reset.  A strategy holds a
\* reference to its generator object.

Draws == 0 .. MaxClips - 1
Streams == [1 .. StreamLen -> Draws]

randbelow(g, n) == g[1] % n

\* random.Random.sample(range(n), k): k draws without replacement from a pool.
RECURSIVE sample_loop(_, _, _, _, _, _)
sample_loop(g, pool, n, i, k, result) ==
    IF i = k THEN [kind |-> "ok", result |-> result, prn |-> g]
    ELSE LET j == randbelow(g, n - i)
         IN  sample_loop(Tail(g), [pool EXCEPT ![j + 1] = pool[n - i]], n,
                         i + 1, k, Append(result, pool[j + 1]))

prn_sample(g, n, k) ==
    IF k < 0 \/ k > n THEN [kind |-> "ValueError"]
    ELSE sample_loop(g, [p \in 1 .. n |-> p - 1], n, 0, k, <<>>)

\* random.Random.randint(a, b)
prn_randint(g, a, b) == [value |-> a + randbelow(g, b - a + 1), prn |-> Tail(g)]

ToSet(sq) == {sq[p] : p \in 1 .. Len(sq)}

----------------------------------------------------------------------------
\* masking.py

IndexSet(S) == [kind |-> "set", elems |-> S]

\* Faulty variant: one generator object is created once and handed to every instance.
random_Random_shared(nth) == 1

\* random.Random(seed): the nth call creates the nth generator object.
random_Random(nth) == nth

\* ratio is kept as its numerator over RatioDen.
RandomMasking(ratio, prn_generator) ==
    [scheme |-> "random", ratio |-> ratio, prn |-> prn_generator]

ContiguousMasking(prn_generator, width) ==
    IF ~(width > 0) THEN [kind |-> "ValueError"]
    ELSE [scheme |-> "contiguous", width |-> width, prn_generator |-> prn_generator]

PartitionMasking(num_partitions, start_partition, num_parts_to_mask) ==
    [scheme |-> "partition", num_partitions |-> num_partitions,
     start_partition |-> start_partition, num_parts_to_mask |-> num_parts_to_mask]

\* Faulty variant: one index too many is sampled.
Random_num_to_mask_ceil(self, n) == (n * self.ratio + RatioDen - 1) \div RatioDen

\* int(num_clips * self.ratio)
Random_num_to_mask(self, n) == (n * self.ratio) \div RatioDen

\* g is the state of the generator self.prn refers to.
Random_get_indices_to_mask(self, n, g) ==
    LET num_to_mask == Random_num_to_mask(self, n)
        s == prn_sample(g, n, num_to_mask)
    IN  IF s.kind = "ValueError" THEN [ret |-> s, prn |-> g]
        ELSE [ret |-> IndexSet(ToSet(s.result)), prn |-> s.prn]

\* Faulty variant: the block may start one past the last possible start.
Contiguous_last_start_off_by_one(self, n) == n - self.width + 1

Contiguous_last_possible_start(self, n) == n - self.width

\* g is the state of the generator self.prn_generator refers to.
Contiguous_get_indices_to_mask(self, n, g) ==
    IF self.width >= n THEN [ret |-> NoneObj, prn |-> g]
    ELSE LET r == prn_randint(g, 0, Contiguous_last_possible_start(self, n))
         IN  [ret |-> IndexSet(Range(r.value, r.value + self.width)), prn |-> r.prn]

\* The partitions list: partitions[i + 1] is the index set of block i.
RECURSIVE build_partitions(_, _, _, _, _, _)
build_partitions(num_partitions, base_size, remainder, i, current_index, partitions) ==
    IF i >= num_partitions THEN partitions
    ELSE LET part_size == IF i < remainder THEN base_size + 1 ELSE base_size
         IN  build_partitions(num_partitions, base_size, remainder, i + 1,
                              current_index + part_size,
                              Append(partitions,
                                     Range(current_index, current_index + part_size)))

\* Faulty variant: the extra element goes to the last blocks instead of the first.
Partition_blocks_extra_last(self, n) ==
    LET P == self.num_partitions
        rev == build_partitions(P, n \div P, n % P, 0, 0, <<>>)
    IN  [p \in 1 .. P |-> {n - 1 - x : x \in rev[P + 1 - p]}]

Partition_blocks(self, n) ==
    build_partitions(self.num_partitions, n \div self.num_partitions,
                     n % self.num_partitions, 0, 0, <<>>)

Partition_get_indices_to_mask(self, n, g) ==
    IF self.num_partitions > n THEN [ret |-> IndexSet({}), prn |-> g]
    ELSE LET partitions == Partition_blocks(self, n)
             end_partition == self.start_partition + self.num_parts_to_mask
         IN  [ret |-> IndexSet(UNION {partitions[i + 1] :
                          i \in {x \in Range(self.start_partition, end_partition) :
                                    x < Len(partitions)}}),
              prn |-> g]

get_indices_to_mask(self, n, g) ==
    CASE self.scheme = "random" -> Random_get_indices_to_mask(self, n, g)
      [] self.scheme = "contiguous" -> Contiguous_get_indices_to_mask(self, n, g)
      [] self.scheme = "partition" -> Partition_get_indices_to_mask(self, n, g)

\* The generator object a strategy instance draws from (none for partition).
HasGenerator(self) == self.scheme \in {"random", "contiguous"}
GeneratorRef(self) ==
    IF self.scheme = "random" THEN self.prn ELSE self.prn_generator
GeneratorOf(self, gens) == IF HasGenerator(self) THEN gens[GeneratorRef(self)] ELSE <<>>
StoreGenerator(self, gens, g) ==
    IF HasGenerator(self) THEN [gens EXCEPT ![GeneratorRef(self)] = g] ELSE gens

\* Raw draws one call of _get_indices_to_mask consumes.
DrawsNeeded(self, n) ==
    CASE self.scheme = "random" -> Random_num_to_mask(self, n)
      [] self.scheme = "contiguous" -> IF self.width >= n THEN 0 ELSE 1
      [] self.scheme = "partition" -> 0

CanDraw(self, n, gens) == DrawsNeeded(self, n) <= Len(GeneratorOf(self, gens))

\* Faulty variant: every clip up to the largest masked index loses its caption.
mask_list_prefix(cl, indices_to_mask) ==
    [p \in 1 .. Len(cl) |->
        IF \E x \in indices_to_mask : cl[p].index <= x
        THEN [cl[p] EXCEPT !.caption = None] ELSE cl[p]]

mask_list(cl, indices_to_mask) ==
    [p \in 1 .. Len(cl) |->
        IF cl[p].index \in indices_to_mask
        THEN [cl[p] EXCEPT !.caption = None] ELSE cl[p]]

\* Faulty variant: only None counts as "no mask" (`indices_to_mask is None`).
Falsy_none_only(ret) == ret = NoneObj

\* `not indices_to_mask`: None and the empty set are both falsy.
Falsy(ret) == ret = NoneObj \/ (ret.kind = "set" /\ ret.elems = {})

mask_video(self, v, g) ==
    LET r == get_indices_to_mask(self, Len(v.clips), g)
    IN  IF r.ret.kind = "ValueError"
        THEN [video |-> r.ret, indices |-> r.ret, ret |-> r.ret, prn |-> r.prn]
        ELSE IF Falsy(r.ret)
        THEN [video |-> NoneObj, indices |-> NoneObj, ret |-> r.ret, prn |-> r.prn]
        ELSE [video |-> [v EXCEPT !.clips = mask_list(v.clips, r.ret.elems)],
              indices |-> r.ret, ret |-> r.ret, prn |-> r.prn]

\* MaskingStrategy.apply: on None, `clip.index in None` raises for the first clip.
apply(self, captions, g) ==
    LET r == get_indices_to_mask(self, Len(captions), g)
    IN  IF r.ret.kind = "ValueError"
        THEN [masked |-> r.ret, indices |-> r.ret, ret |-> r.ret, prn |-> r.prn]
        ELSE IF r.ret = NoneObj
        THEN [masked |-> IF captions = <<>> THEN [kind |-> "list", clips |-> <<>>]
                         ELSE [kind |-> "TypeError"],
              indices |-> NoneObj, ret |-> r.ret, prn |-> r.prn]
        ELSE [masked |-> [kind |-> "list", clips |-> mask_list(captions, r.ret.elems)],
              indices |-> r.ret, ret |-> r.ret, prn |-> r.prn]

\* Faulty variant: a block-count equal to num_partitions is skipped as well.
skips_equal(num_to_mask, num_partitions) == num_to_mask >= num_partitions

\* `if num_to_mask > num_partitions: continue`
skips(num_to_mask, num_partitions) == num_to_mask > num_partitions

\* Faulty variant: the last starting partition is left out.
max_start_part_short(num_partitions, num_to_mask) == num_partitions - num_to_mask - 1

max_start_part(num_partitions, num_to_mask) == num_partitions - num_to_mask

\* The loop over config["num_parts_to_mask"], from its i-th element on.
RECURSIVE partition_sweep(_, _, _, _)
partition_sweep(num_partitions, parts_to_mask, i, strats) ==
    IF i > Len(parts_to_mask) THEN strats
    ELSE IF skips(parts_to_mask[i], num_partitions)
         THEN partition_sweep(num_partitions, parts_to_mask, i + 1, strats)
         ELSE partition_sweep(num_partitions, parts_to_mask, i + 1,
                  strats \o [x \in 1 .. max_start_part(num_partitions, parts_to_mask[i]) + 1 |->
                                PartitionMasking(num_partitions, x - 1, parts_to_mask[i])])

\* The loop over masking_configs, from its c-th element on.  The random and
\* contiguous branches create generator objects; instances of those schemes
\* are built in InitIndices and InitMask.
RECURSIVE configs_loop(_, _, _, _)
configs_loop(configs, master_seed, c, strats) ==
    IF c > Len(configs) THEN [kind |-> "list", items |-> strats]
    ELSE IF configs[c].scheme = "partition"
         THEN configs_loop(configs, master_seed, c + 1,
                           partition_sweep(configs[c].num_partitions,
                                           configs[c].num_parts_to_mask, 1, strats))
         ELSE [kind |-> "NotImplementedError"]

get_masking_strategies(configs, master_seed) ==
    configs_loop(configs, master_seed, 1, <<>>)

----------------------------------------------------------------------------
\* reconstruction_strategies.py

\* A Python dict, in insertion order: a sequence of entries with distinct keys.
dict_keys(d) == {d[p].index : p \in 1 .. Len(d)}
dict_get(d, k) == (CHOOSE e \in ToSet(d) : e.index = k).caption
dict_set(d, k, v) ==
    IF k \in dict_keys(d)
    THEN [p \in 1 .. Len(d) |-> IF d[p].index = k THEN [d[p] EXCEPT !.caption = v] ELSE d[p]]
    ELSE Append(d, [index |-> k, caption |-> v])

\* reconstructed_captions is dict[int, str]: a None value fails validation.
Reconstructed(video_id, reconstructed_captions) ==
    IF \E p \in 1 .. Len(reconstructed_captions) : reconstructed_captions[p].caption = None
    THEN [kind |-> "ValidationError"]
    ELSE [kind |-> "Reconstructed", video_id |-> video_id,
          reconstructed_captions |-> reconstructed_captions,
          debug_data |-> NoneObj, skip_reason |-> NoneObj, metrics |-> NoneObj]

RECURSIVE first_pass(_, _)
first_pass(masked_clips, p) ==
    IF p > Len(masked_clips) THEN None
    ELSE IF masked_clips[p].caption # None THEN masked_clips[p].caption
    ELSE first_pass(masked_clips, p + 1)

RECURSIVE second_pass(_, _, _, _)
second_pass(masked_clips, p, last_known_caption, reconstructed_captions) ==
    IF p > Len(masked_clips) THEN reconstructed_captions
    ELSE IF masked_clips[p].caption # None
         THEN second_pass(masked_clips, p + 1, masked_clips[p].caption,
                          reconstructed_captions)
         ELSE second_pass(masked_clips, p + 1, last_known_caption,
                          dict_set(reconstructed_captions, masked_clips[p].index,
                                   last_known_caption))

Baseline_reconstruct(mv) ==
    LET first_valid_caption == first_pass(mv.clips, 1)
    IN  Reconstructed(mv.video_id, second_pass(mv.clips, 1, first_valid_caption, <<>>))

\* Reconstructed(...) with a debug_data dict.  A dict is a record with
\* kind "dict" and one field per key.
Reconstructed_debug(video_id, reconstructed_captions, debug_data) ==
    [Reconstructed(video_id, reconstructed_captions) EXCEPT !.debug_data = debug_data]

----------------------------------------------------------------------------
\* llm_interaction.py, prompting.py, parsers.py

MaxAttempts == 6     \* stop_after_attempt(6)

\* A raised exception, and what a raise of it leaves instead of a value.
Raise(type) == [kind |-> "raise", type |-> type]

\* A Python str that is a response text: the empty string (json = "empty"),
\* text parse_llm_response rejects (json = "invalid"), or a JSON list that
\* validates, with its items in order (json = "list").
Str(json, items) == [kind |-> "str", json |-> json, items |-> items]

\* Faulty variant: only None counts as no response.
Truthy_unless_none(res) == res # NoneObj

\* bool(x) of a value that is None or a str.
Truthy(res) == res # NoneObj /\ res.json # "empty"

\* The response object llm.generate_content returns.
GenerateContentResponse(text) == [kind |-> "response", text |-> text]

\* The digest is taken over the JSON of the three settings followed by the
\* prompt; distinct inputs are taken to have distinct digests.
LLM_Manager(model_name, temperature, system_instruction) ==
    [kind |-> "LLM_Manager",
     base_cache_key |-> <<model_name, system_instruction, temperature>>,
     last_raw_response |-> NoneObj]

cache_key(self, prompt) == <<self.base_cache_key, prompt>>

\* diskcache.Cache: a set of entries with distinct keys.
cache_keys(cache) == {e.key : e \in cache}
cache_get(cache, k) == (CHOOSE e \in cache : e.key = k).value
cache_set(cache, k, v) == {e \in cache : e.key # k} \cup {[key |-> k, value |-> v]}

\* The exception classes the retry decorator names; ServerError stands for
\* every 5xx class derived from it.
TransientErrors == {"ResourceExhausted", "ServerError"}

\* Faulty variant: every exception is retried.
retry_if_any_exception(outcome) == outcome.kind = "raise"

\* retry_if_exception_type((ResourceExhausted, ServerError)) on the outcome of
\* an attempt.
retry_if_exception_type(outcome) ==
    outcome.kind = "raise" /\ outcome.type \in TransientErrors

stop_after_attempt(attempt_number) == attempt_number >= MaxAttempts

\* What the decorator does once attempt number attempt_number of
\* generate_content ended with `outcome`: hand the outcome to the caller, give
\* up with RetryError, or sleep and call again.
retry_iter(attempt_number, outcome) ==
    IF ~retry_if_exception_type(outcome)
    THEN [do |-> "return", ret |-> outcome]
    ELSE IF stop_after_attempt(attempt_number)
    THEN [do |-> "return", ret |-> Raise("RetryError")]
    ELSE [do |-> "sleep", ret |-> Unset]

\* What the oracle does with one prompt: it fails `transient` times with
\* ResourceExhausted or ServerError, then answers `final`, a response object
\* or an exception of another class.
\* _invoke_llm under @retry: `sent` counts the calls of generate_content.
invoke_llm(prompt, o) ==
    IF o.transient >= MaxAttempts
    THEN [ret |-> Raise("RetryError"), sent |-> MaxAttempts]
    ELSE [ret |-> o.final, sent |-> o.transient + 1]

call_retry(self, prompt, o) ==
    LET r == invoke_llm(prompt, o)
    IN  IF r.ret.kind = "raise"
        THEN [ret |-> r.ret, last_raw_response |-> NoneObj, sent |-> r.sent]
        ELSE [ret |-> r.ret.text, last_raw_response |-> r.ret, sent |-> r.sent]

\* Faulty variant: no response is ever stored.
stores_never(res) == FALSE

\* `if res:` before the store.
stores(res) == Truthy(res)

cached_call(self, cache, prompt, o) ==
    LET k == cache_key(self, prompt)
    IN  IF k \in cache_keys(cache)
        THEN [ret |-> cache_get(cache, k), disk_cache |-> cache,
              last_raw_response |-> self.last_raw_response, sent |-> 0]
        ELSE LET r == call_retry(self, prompt, o)
             IN  [ret |-> r.ret,
                  disk_cache |-> IF r.ret.kind # "raise" /\ stores(r.ret)
                                 THEN cache_set(cache, k, r.ret) ELSE cache,
                  last_raw_response |-> r.last_raw_response, sent |-> r.sent]

call(self, cache, prompt, o) == cached_call(self, cache, prompt, o)

\* PromptBuilderDataOnly.build_prompt: the JSON dump of every clip, in order.
build_prompt(mv) == [kind |-> "prompt", data |-> mv.clips]

\* parse_llm_response returns the validated list, or None.
parse_llm_response(response_text) ==
    IF response_text.json = "list"
    THEN [kind |-> "list", items |-> response_text.items]
    ELSE NoneObj

\* reconstructed_video.to_dict(): reconstructed_video is a Python list, which
\* has no attribute to_dict.
to_dict(reconstructed_video) == Raise("AttributeError")

----------------------------------------------------------------------------
\* reconstruction_strategies.py: LLMStrategy

\* recon_caps.get(k)
dict_get_or_none(d, k) == IF k \in dict_keys(d) THEN dict_get(d, k) ELSE None

\* The loop over masked_video.clips.
RECURSIVE reconcile(_, _, _, _)
reconcile(masked_clips, p, recon_caps, acc) ==
    IF p > Len(masked_clips) THEN acc
    ELSE LET c == masked_clips[p]
             new_cap == dict_get_or_none(recon_caps, c.index)
         IN  IF c.caption = None
             THEN IF new_cap # None /\ new_cap # ""
                  THEN reconcile(masked_clips, p + 1, recon_caps,
                         [acc EXCEPT !.ok = Append(@, c.index),
                                     !.reconstructed_dict = dict_set(@, c.index, new_cap)])
                  ELSE reconcile(masked_clips, p + 1, recon_caps,
                         [acc EXCEPT !.failed = Append(@, c.index),
                                     !.reconstructed_dict = dict_set(@, c.index, "")])
             ELSE IF c.index \in dict_keys(recon_caps) /\ c.caption # new_cap
                  THEN reconcile(masked_clips, p + 1, recon_caps,
                         [acc EXCEPT !.changed_unmasked = Append(@, c.index)])
                  ELSE reconcile(masked_clips, p + 1, recon_caps, acc)

\* The except clause of LLMStrategy.reconstruct; debug_data is still None
\* wherever the try block can raise.
except_reraise(mv, e, raw_response) == e

except_Exception(mv, e, raw_response) ==
    Reconstructed_debug(mv.video_id, <<>>,
        [kind |-> "dict", error |-> e.type, raw_response |-> raw_response])

\* LLMStrategy.reconstruct from `if not recon_caps` on.
after_to_dict(mv, recon_caps, dups, llm_response_text, raw_response) ==
    IF recon_caps = <<>>
    THEN Reconstructed_debug(mv.video_id, <<>>,
             [kind |-> "dict", error |-> "LLM error - failed parsing to_dict",
              raw_response |-> raw_response])
    ELSE IF dups # <<>>
    THEN Reconstructed_debug(mv.video_id, <<>>,
             [kind |-> "dict", error |-> "LLM error - duplicate indices found",
              llm_response_text |-> llm_response_text, dups |-> dups])
    ELSE LET r == reconcile(mv.clips, 1, recon_caps,
                      [ok |-> <<>>, failed |-> <<>>, changed_unmasked |-> <<>>,
                       reconstructed_dict |-> <<>>])
         IN  Reconstructed_debug(mv.video_id, r.reconstructed_dict,
                 IF r.failed # <<>> \/ r.changed_unmasked # <<>>
                 THEN [kind |-> "dict", ok |-> r.ok, failed |-> r.failed,
                       changed_unmasked |-> r.changed_unmasked,
                       llm_response_text |-> llm_response_text]
                 ELSE NoneObj)

\* LLMStrategy.reconstruct once the oracle client has returned or raised.
after_call(mv, llm_response_text, raw_response) ==
    IF llm_response_text.kind = "raise"
    THEN except_Exception(mv, llm_response_text, raw_response)
    ELSE IF ~Truthy(llm_response_text)
    THEN Reconstructed_debug(mv.video_id, <<>>,
             [kind |-> "dict", error |-> "LLM error - llm_response_text empty",
              raw_response |-> raw_response])
    ELSE LET reconstructed_video == parse_llm_response(llm_response_text)
         IN  IF reconstructed_video = NoneObj \/ reconstructed_video.items = <<>>
             THEN Reconstructed_debug(mv.video_id, <<>>,
                      [kind |-> "dict", error |-> "LLM error - failed parsing",
                       raw_response |-> raw_response])
             ELSE LET pair == to_dict(reconstructed_video)
                  IN  IF pair.kind = "raise"
                      THEN except_Exception(mv, pair, raw_response)
                      ELSE after_to_dict(mv, pair.recon_caps, pair.dups,
                                         llm_response_text, raw_response)

\* LLMStrategy.reconstruct.  `built` is what prompt_builder.build_prompt did:
\* the prompt, or an exception.
LLM_reconstruct(self, cache, mv, built, o) ==
    IF built.kind = "raise"
    THEN [result |-> except_Exception(mv, built, self.last_raw_response),
          disk_cache |-> cache, last_raw_response |-> self.last_raw_response,
          sent |-> 0]
    ELSE LET c == call(self, cache, built, o)
         IN  [result |-> after_call(mv, c.ret, c.last_raw_response),
              disk_cache |-> c.disk_cache,
              last_raw_response |-> c.last_raw_response, sent |-> c.sent]

----------------------------------------------------------------------------
\* reconstruction_strategies.py: Reconstructed.align

\* The first entry, in mapping order, at which the loop raises: orig_clips[i]
\* does not exist, or the assertion on its index fails.  None if there is none.
align_error(self, orig_clips) ==
    LET d == self.reconstructed_captions
        bad == {p \in 1 .. Len(d) :
                   \/ d[p].index >= Len(orig_clips)
                   \/ orig_clips[d[p].index + 1].index # d[p].index}
    IN  IF bad = {} THEN NoneObj
        ELSE IF d[Min(bad)].index >= Len(orig_clips) THEN Raise("IndexError")
        ELSE Raise("AssertionError")

align_candidates(self) ==
    [p \in 1 .. Len(self.reconstructed_captions) |->
        self.reconstructed_captions[p].caption]

\* Faulty variant: the reference is taken at the position in the mapping, not
\* at the index.
align_references_by_position(self, orig_clips) ==
    [p \in 1 .. Len(self.reconstructed_captions) |-> orig_clips[p].caption]

align_references(self, orig_clips) ==
    [p \in 1 .. Len(self.reconstructed_captions) |->
        orig_clips[self.reconstructed_captions[p].index + 1].caption]

align(self, orig_clips) ==
    IF align_error(self, orig_clips) # NoneObj THEN align_error(self, orig_clips)
    ELSE [kind |-> "pair", candidates |-> align_candidates(self),
          references |-> align_references(self, orig_clips)]

----------------------------------------------------------------------------
\* reconstruction_strategies.py: Reconstructed.skip, Reconstructed.with_metrics.
\* Both assign a field of the object `self` refers to and return `self`: the
\* result is the heap after the call and the reference returned.

\* Faulty variant: the change is made on a copy, which is returned
\* (model_copy(update=...)).
Reconstructed_skip_copy(h, self, reason) ==
    [heap |-> Append(h, [h[self] EXCEPT !.skip_reason = reason]), ret |-> Len(h) + 1]

Reconstructed_skip(h, self, reason) ==
    [heap |-> [h EXCEPT ![self].skip_reason = reason], ret |-> self]

Reconstructed_with_metrics(h, self, metrics) ==
    [heap |-> [h EXCEPT ![self].metrics = metrics], ret |-> self]

----------------------------------------------------------------------------
\* evaluation.py

EmptyDict == [kind |-> "dict"]

\* self._align_clips(...) called with the argument list args: the method takes
\* two arguments besides self, and reads c.data.caption of every value of the
\* mapping, an attribute neither a str nor a CaptionedClip has.
align_clips(args) ==
    IF Len(args) # 2 THEN Raise("TypeError")
    ELSE IF args[1] = <<>>
    THEN [kind |-> "pair", candidates |-> <<>>, references |-> <<>>]
    ELSE Raise("AttributeError")

\* ReconstructionEvaluator.evaluate; `scores` is what bert_scorer.score would
\* answer.  `scored` lists the calls of bert_scorer.score it made.
evaluate(reconstructed_clips, ground_truth_clips, indices, scores) ==
    LET a == align_clips(<<reconstructed_clips, ground_truth_clips, indices>>)
    IN  IF a.kind = "raise" THEN [ret |-> a, scored |-> <<>>]
        ELSE IF a.candidates = <<>> THEN [ret |-> EmptyDict, scored |-> <<>>]
        ELSE [ret |-> [kind |-> "dict", num_captions |-> Len(ground_truth_clips),
                       masked |-> indices,
                       bs_p |-> SubSeq(scores.P, 1, Len(a.candidates)),
                       bs_r |-> SubSeq(scores.R, 1, Len(a.candidates)),
                       bs_f1 |-> SubSeq(scores.F1, 1, Len(a.candidates))],
              scored |-> <<[cands |-> a.candidates, refs |-> a.references]>>]

----------------------------------------------------------------------------
\* queue_lock.py and the lock of run_experiments.main.  Both QueueLock and the
\* FileLock context manager main() uses open the lock file and take an
\* exclusive flock on it; `lock` is the set of processes whose open file holds
\* the flock.

\* Faulty variant: the flock is granted whoever holds it.
flock_granted_always(holders, p) == TRUE

\* fcntl.flock(f, LOCK_EX) returns only when no other open file holds a lock.
flock_granted(holders, p) == holders \ {p} = {}

\* QueueLock.acquire up to the blocking call: the lock file is opened.
QueueLock_open(files, p) == [files EXCEPT ![p] = "open"]

\* QueueLock.release: unlock and close, if the file is open.
QueueLock_release(holders, files, p) ==
    IF files[p] = "open"
    THEN [lock |-> holders \ {p}, lock_file |-> [files EXCEPT ![p] = "None"]]
    ELSE [lock |-> holders, lock_file |-> files]

----------------------------------------------------------------------------
\* Specification SpecVideo: construction of a CaptionedVideo.

IdleLLM ==
    /\ llm_model = Unset /\ disk_cache = <<>> /\ invocations = <<>>
    /\ llm_calls = <<>> /\ llm_step = Unset

IdleEval ==
    /\ heap = <<>> /\ returned = <<>> /\ history = <<>>
    /\ aligned = Unset /\ evaluated = Unset /\ scorer_calls = <<>>

IdleRun ==
    /\ recon_strategy = Unset /\ all_videos = <<>> /\ position = 0
    /\ all_metrics = <<>> /\ all_recon_videos = <<>> /\ run_result = Unset
    /\ run_calls = <<>>

IdleLock ==
    /\ lock = {} /\ lock_file = <<>> /\ pc = <<>> /\ batch = <<>>

Idle ==
    /\ strategy = Unset /\ twin = Unset /\ calls = <<>> /\ twin_calls = <<>>
    /\ generators = <<>>
    /\ masked_video = Unset /\ masked_indices = Unset /\ applied = Unset
    /\ reconstructed = Unset /\ num_clips = 0 /\ masking_configs = Unset
    /\ strategies = Unset /\ masks = <<>>
    /\ IdleLLM /\ IdleEval /\ IdleRun /\ IdleLock

InitVideo ==
    /\ clips \in ClipLists
    /\ video = Unset
    /\ Idle

NewCaptionedVideo ==
    /\ video = Unset
    /\ \E vid \in VideoIds : video' = CaptionedVideo(vid, clips)
    /\ UNCHANGED <<lock_vars, llm_vars, eval_vars, run_vars, clips, strategy, twin, calls, twin_calls, generators,
                   masked_video, masked_indices, applied, reconstructed,
                   num_clips, masking_configs, strategies, masks>>

NextVideo == NewCaptionedVideo

SpecVideo == InitVideo /\ [][NextVideo]_vars

\* C1: Constructing a CaptionedVideo succeeds if and only if clips[i].index = i
\* at every position i; otherwise it is rejected with an error naming the
\* first position whose clip has another index.
ConstructionChecksIndices ==
    video # Unset =>
        /\ (video.kind = "video") <=> Sequential(clips)
        /\ video.kind = "video" => video.clips = clips
        /\ video.kind # "video" =>
              /\ video.kind = "ValueError"
              /\ video.position =
                    Min({i \in 0 .. Len(clips) - 1 : clips[i + 1].index # i})

\* A reordered list <<0, 2, 1>> was rejected at position 1.
WitnessRejectedReordering ==
    /\ Len(clips) = 3
    /\ clips[1].index = 0 /\ clips[2].index = 2 /\ clips[3].index = 1
    /\ video.kind = "ValueError" /\ video.position = 1

----------------------------------------------------------------------------
\* Specification SpecMask: one video of the run is masked by the run's strategy
\* (ExperimentRunner.run: mask_video, then reconstruct; runner.py: apply).

GeneratorStrategies ==
    {RandomMasking(r, random_Random(1)) : r \in 0 .. RatioDen}
    \cup {ContiguousMasking(random_Random(1), w) : w \in 1 .. MaxClips + 1}

PartitionStrategies(maxP, maxN) ==
    {PartitionMasking(P, s, k) : P \in 1 .. maxP, s \in 0 .. maxN, k \in 1 .. maxP + 1}

InitMask ==
    /\ video \in LoadedVideos
    /\ clips = video.clips
    /\ \/ strategy \in GeneratorStrategies /\ generators \in [{1} -> Streams]
       \/ strategy \in PartitionStrategies(MaxClips + 1, MaxClips) /\ generators = <<>>
    /\ twin = Unset /\ calls = <<>> /\ twin_calls = <<>>
    /\ masked_video = Unset /\ masked_indices = Unset /\ applied = Unset
    /\ reconstructed = Unset /\ num_clips = 0 /\ masking_configs = Unset
    /\ strategies = Unset /\ masks = <<>>
    /\ IdleLLM /\ IdleEval /\ IdleRun /\ IdleLock

MaskVideo ==
    /\ calls = <<>>
    /\ CanDraw(strategy, Len(video.clips), generators)
    /\ LET m == mask_video(strategy, video, GeneratorOf(strategy, generators))
       IN  /\ masked_video' = m.video
           /\ masked_indices' = m.indices
           /\ generators' = StoreGenerator(strategy, generators, m.prn)
           /\ calls' = Append(calls, m.ret)
    /\ UNCHANGED <<lock_vars, llm_vars, eval_vars, run_vars, clips, video, strategy, twin, twin_calls, applied, reconstructed,
                   num_clips, masking_configs, strategies, masks>>

Apply ==
    /\ calls = <<>>
    /\ CanDraw(strategy, Len(video.clips), generators)
    /\ LET m == apply(strategy, video.clips, GeneratorOf(strategy, generators))
       IN  /\ applied' = [masked |-> m.masked, indices |-> m.indices]
           /\ generators' = StoreGenerator(strategy, generators, m.prn)
           /\ calls' = Append(calls, m.ret)
    /\ UNCHANGED <<lock_vars, llm_vars, eval_vars, run_vars, clips, video, strategy, twin, twin_calls, masked_video,
                   masked_indices, reconstructed, num_clips, masking_configs,
                   strategies, masks>>

Reconstruct ==
    /\ masked_video # Unset /\ masked_video.kind = "video"
    /\ reconstructed = Unset
    /\ reconstructed' = Baseline_reconstruct(masked_video)
    /\ UNCHANGED <<lock_vars, llm_vars, eval_vars, run_vars, clips, video, strategy, twin, calls, twin_calls, generators,
                   masked_video, masked_indices, applied, num_clips,
                   masking_configs, strategies, masks>>

NextMask == MaskVideo \/ Apply \/ Reconstruct

SpecMask == InitMask /\ [][NextMask]_vars

NonEmptyMask == calls # <<>> /\ calls[1].kind = "set" /\ calls[1].elems # {}
EmptyMask == calls # <<>> /\ calls[1] = IndexSet({})

\* C2: for every loaded video and every non-empty index set S a strategy produced,
\* mask_video returns a new video with the same video_id and as many clips,
\* whose clip i has caption None exactly when i is in S; every clip outside S
\* keeps its index, timestamp and caption, and the original video is unchanged.
MaskVideoMasksExactlyIndices ==
    (masked_video # Unset /\ NonEmptyMask) =>
        LET S == calls[1].elems
        IN  /\ masked_video.kind = "video"
            /\ masked_indices = IndexSet(S)
            /\ masked_video.video_id = video.video_id
            /\ Len(masked_video.clips) = Len(video.clips)
            /\ \A i \in 0 .. Len(video.clips) - 1 :
                  /\ (masked_video.clips[i + 1].caption = None) <=> (i \in S)
                  /\ masked_video.clips[i + 1].index = video.clips[i + 1].index
                  /\ masked_video.clips[i + 1].timestamp = video.clips[i + 1].timestamp
                  /\ i \notin S => masked_video.clips[i + 1] = video.clips[i + 1]
            /\ video.clips = clips
            \* the video is ground truth: no caption was None before masking
            /\ \A i \in 0 .. Len(video.clips) - 1 : video.clips[i + 1].caption # None

\* Clips 0 and 2 of a three-clip video were masked, clip 1 was not.
WitnessMaskedTwoOfThree ==
    /\ masked_video # Unset /\ NonEmptyMask
    /\ calls[1].elems = {0, 2}
    /\ Len(masked_video.clips) = 3
    /\ masked_video.clips[2].caption = "B"

\* C3 as stated: masking a video with the empty index set yields a video equal
\* to the original.
MaskVideoEmptyIsIdentity ==
    (masked_video # Unset /\ EmptyMask) => masked_video = video

\* C3, amended: mask_list with the empty index set (MaskingStrategy.apply with
\* an empty mask), applied once or twice, returns a clip list equal to the
\* original; mask_video with an empty index set returns no video.
MaskListEmptyIsIdentity ==
    /\ (applied # Unset /\ EmptyMask) =>
          /\ applied.masked.kind = "list"
          /\ applied.masked.clips = video.clips
          /\ mask_list(applied.masked.clips, applied.indices.elems) = video.clips
    /\ (masked_video # Unset /\ EmptyMask) =>
          /\ masked_video = NoneObj
          /\ masked_indices = NoneObj

\* apply ran with an empty mask on a video of two clips.
WitnessAppliedEmptyMask ==
    /\ applied # Unset /\ EmptyMask
    /\ Len(video.clips) = 2

Masked(mv) == {i \in 0 .. Len(mv.clips) - 1 : mv.clips[i + 1].caption = None}
Unmasked(mv) == (0 .. Len(mv.clips) - 1) \ Masked(mv)
Max(S) == CHOOSE x \in S : \A y \in S : x >= y

\* The caption the carry-forward rule gives masked clip i.
CarriedCaption(mv, i) ==
    LET before == {j \in Unmasked(mv) : j < i}
        after == {j \in Unmasked(mv) : j > i}
    IN  IF before # {} THEN mv.clips[Max(before) + 1].caption
        ELSE mv.clips[Min(after) + 1].caption

CarriesForward(mv, r) ==
    /\ r.kind = "Reconstructed"
    /\ dict_keys(r.reconstructed_captions) = Masked(mv)
    /\ Len(r.reconstructed_captions) = Cardinality(Masked(mv))
    /\ \A i \in Masked(mv) :
          Unmasked(mv) # {} =>
              dict_get(r.reconstructed_captions, i) = CarriedCaption(mv, i)

\* C10: BaselineRepeatStrategy.reconstruct emits an entry for exactly the
\* masked clips, each holding the caption of the nearest preceding unmasked
\* clip or, when none precedes, of the first later unmasked clip.
BaselineFillsExactlyMasked ==
    reconstructed # Unset => CarriesForward(masked_video, reconstructed)

\* The same, for masked videos that keep at least one caption.
BaselineFillsWhenSomeCaptionKept ==
    (reconstructed # Unset /\ Unmasked(masked_video) # {}) =>
        CarriesForward(masked_video, reconstructed)

\* C11: when every clip of the masked video is masked,
\* BaselineRepeatStrategy.reconstruct returns a result rather than failing, and
\* no output of that result holds an invented caption (each is None or absent).
BaselineAllMaskedReturnsResult ==
    (reconstructed # Unset /\ Unmasked(masked_video) = {}) =>
        /\ reconstructed.kind = "Reconstructed"
        /\ \A p \in 1 .. Len(reconstructed.reconstructed_captions) :
              reconstructed.reconstructed_captions[p].caption = None

----------------------------------------------------------------------------
\* Specification SpecIndices: a random or contiguous strategy instance, and a
\* twin built from the same spec and seed (build_experiments builds the list of
\* masking strategies anew for every reconstruction strategy), are applied
\* again and again to sequences of one length.

InitIndices ==
    /\ \E g \in Streams : generators = [ref \in {1, 2} |-> g]
    /\ \/ \E r \in 0 .. RatioDen :
             /\ strategy = RandomMasking(r, random_Random(1))
             /\ twin = RandomMasking(r, random_Random(2))
       \/ \E w \in 1 .. MaxClips + 1 :
             /\ strategy = ContiguousMasking(random_Random(1), w)
             /\ twin = ContiguousMasking(random_Random(2), w)
    /\ num_clips \in 0 .. MaxClips
    /\ calls = <<>> /\ twin_calls = <<>>
    /\ clips = <<>> /\ video = Unset
    /\ masked_video = Unset /\ masked_indices = Unset /\ applied = Unset
    /\ reconstructed = Unset /\ masking_configs = Unset
    /\ strategies = Unset /\ masks = <<>>
    /\ IdleLLM /\ IdleEval /\ IdleRun /\ IdleLock

GetIndices ==
    /\ Len(calls) < MaxCalls
    /\ CanDraw(strategy, num_clips, generators)
    /\ LET r == get_indices_to_mask(strategy, num_clips, GeneratorOf(strategy, generators))
       IN  /\ calls' = Append(calls, r.ret)
           /\ generators' = StoreGenerator(strategy, generators, r.prn)
    /\ UNCHANGED <<lock_vars, llm_vars, eval_vars, run_vars, clips, video, strategy, twin, twin_calls, masked_video,
                   masked_indices, applied, reconstructed, num_clips,
                   masking_configs, strategies, masks>>

GetIndicesTwin ==
    /\ Len(twin_calls) < MaxCalls
    /\ CanDraw(twin, num_clips, generators)
    /\ LET r == get_indices_to_mask(twin, num_clips, GeneratorOf(twin, generators))
       IN  /\ twin_calls' = Append(twin_calls, r.ret)
           /\ generators' = StoreGenerator(twin, generators, r.prn)
    /\ UNCHANGED <<lock_vars, llm_vars, eval_vars, run_vars, clips, video, strategy, twin, calls, masked_video,
                   masked_indices, applied, reconstructed, num_clips,
                   masking_configs, strategies, masks>>

NextIndices == GetIndices \/ GetIndicesTwin

SpecIndices == InitIndices /\ [][NextIndices]_vars

AllCalls == calls \o twin_calls

\* floor(n * r) for r = ratio / RatioDen, stated without division.
IsFloorOfProduct(k, n, ratio) ==
    k * RatioDen <= n * ratio /\ n * ratio < (k + 1) * RatioDen

\* C4: for every RandomMasking strategy with ratio r in [0, 1] and every length
\* N, the returned index set is a subset of 0..N-1 with exactly floor(N * r)
\* elements; r = 0 gives the empty set and r = 1 all N indices.
RandomMasksFloorOfRatio ==
    strategy.scheme = "random" =>
        \A c \in 1 .. Len(AllCalls) :
            /\ AllCalls[c].kind = "set"
            /\ AllCalls[c].elems \subseteq 0 .. num_clips - 1
            /\ IsFloorOfProduct(Cardinality(AllCalls[c].elems), num_clips,
                                strategy.ratio)
            /\ strategy.ratio = 0 => AllCalls[c].elems = {}
            /\ strategy.ratio = RatioDen => AllCalls[c].elems = 0 .. num_clips - 1

\* Ratio 3/4 on three clips masked two of them.
WitnessRandomTwoOfThree ==
    /\ strategy.scheme = "random" /\ strategy.ratio = 3 /\ num_clips = 3
    /\ calls # <<>> /\ Cardinality(calls[1].elems) = 2

\* C5 as stated: re-applying one RandomMasking instance to sequences of the
\* same length always yields the same index set.
ReapplyingYieldsSameSet ==
    strategy.scheme = "random" =>
        \A c, d \in 1 .. Len(calls) : calls[c] = calls[d]

\* C5, amended: successive applications of one RandomMasking instance to
\* sequences of the same length yield index sets of the same size, not always
\* the same set; the n-th application of an instance yields the same set as
\* the n-th application of any other instance built from the same seed.
SameSeedYieldsSameSequence ==
    strategy.scheme = "random" =>
        /\ \A c, d \in 1 .. Len(calls) :
              Cardinality(calls[c].elems) = Cardinality(calls[d].elems)
        /\ \A c \in 1 .. Len(calls) :
              c <= Len(twin_calls) => calls[c] = twin_calls[c]

\* One instance was applied twice and gave two different sets; its twin gave
\* the first of them.
WitnessReappliedDiffers ==
    /\ strategy.scheme = "random"
    /\ Len(calls) = 2 /\ calls[1] # calls[2]
    /\ Len(twin_calls) = 1 /\ twin_calls[1] = calls[1]

\* C6: for ContiguousMasking with width w on a sequence of length N: no mask
\* when w >= N; otherwise exactly the w consecutive indices s..s+w-1 for some
\* start s with 0 <= s <= N-w, so every index lies in 0..N-1.
ContiguousMasksOneBlock ==
    strategy.scheme = "contiguous" =>
        \A c \in 1 .. Len(AllCalls) :
            IF strategy.width >= num_clips
            THEN AllCalls[c] = NoneObj
            ELSE /\ AllCalls[c].kind = "set"
                 /\ \E st \in 0 .. num_clips - strategy.width :
                       AllCalls[c].elems = st .. st + strategy.width - 1
                 /\ AllCalls[c].elems \subseteq 0 .. num_clips - 1
                 /\ Cardinality(AllCalls[c].elems) = strategy.width

\* Width 2 on three clips masked the last possible block, 1..2.
WitnessContiguousLastBlock ==
    /\ strategy.scheme = "contiguous" /\ strategy.width = 2 /\ num_clips = 3
    /\ calls # <<>> /\ calls[1].kind = "set" /\ calls[1].elems = {1, 2}

----------------------------------------------------------------------------
\* Specification SpecPartition: a PartitionMasking instance built directly
\* with any start and block count is applied to sequences of one length.

InitPartition ==
    /\ strategy \in {PartitionMasking(P, st, k) :
                        P \in 1 .. MaxPartitions, st \in 0 .. MaxPartitions,
                        k \in 0 .. MaxPartitions + 1}
    /\ num_clips \in 0 .. MaxNumClips
    /\ twin = Unset /\ generators = <<>>
    /\ calls = <<>> /\ twin_calls = <<>>
    /\ clips = <<>> /\ video = Unset
    /\ masked_video = Unset /\ masked_indices = Unset /\ applied = Unset
    /\ reconstructed = Unset /\ masking_configs = Unset
    /\ strategies = Unset /\ masks = <<>>
    /\ IdleLLM /\ IdleEval /\ IdleRun /\ IdleLock

NextPartition == GetIndices

SpecPartition == InitPartition /\ [][NextPartition]_vars

\* Block i of N elements split into P nearly equal contiguous blocks, the
\* first N mod P of them one element longer.
BlockSize(N, P, i) == IF i < N % P THEN N \div P + 1 ELSE N \div P
BlockStart(N, P, i) == i * (N \div P) + (IF i < N % P THEN i ELSE N % P)
Block(N, P, i) == BlockStart(N, P, i) .. BlockStart(N, P, i) + BlockSize(N, P, i) - 1

IsUnionOfBlocks(S, N, self) ==
    LET wanted == {i \in 0 .. self.num_partitions - 1 :
                      /\ i >= self.start_partition
                      /\ i < self.start_partition + self.num_parts_to_mask}
    IN  /\ S = UNION {Block(N, self.num_partitions, i) : i \in wanted}
        /\ \A x, z \in S : \A y \in x .. z : y \in S

\* C7 as stated: for PartitionMasking(P, s, k) on a sequence of length N the
\* returned set is the union of blocks s .. s+k-1 of the P nearly equal blocks.
PartitionMasksUnionOfBlocks ==
    \A c \in 1 .. Len(calls) :
        calls[c].kind = "set" /\ IsUnionOfBlocks(calls[c].elems, num_clips, strategy)

\* C7, amended: when P <= N, the sequence is split into P contiguous blocks,
\* the first N mod P of floor(N/P)+1 elements and the rest of floor(N/P), and
\* the returned set is exactly the union of blocks s .. s+k-1 (those of them
\* that exist), a contiguous range; when P > N the returned set is empty.
PartitionMasksUnionOfBlocksWhenEnoughClips ==
    \A c \in 1 .. Len(calls) :
        /\ calls[c].kind = "set"
        /\ strategy.num_partitions <= num_clips =>
              IsUnionOfBlocks(calls[c].elems, num_clips, strategy)
        /\ strategy.num_partitions > num_clips => calls[c].elems = {}

\* Seven clips in three blocks {0,1,2}, {3,4}, {5,6}: blocks 1 and 2 masked.
WitnessPartitionSevenInThree ==
    /\ strategy = PartitionMasking(3, 1, 2) /\ num_clips = 7
    /\ calls # <<>> /\ calls[1].elems = {3, 4, 5, 6}

----------------------------------------------------------------------------
\* Specification SpecSweep: a partition sweep spec is expanded by
\* get_masking_strategies and every strategy of the list is applied, in list
\* order, to a sequence of num_clips clips (build_experiments, main).

SweepConfigs ==
    {[scheme |-> sch, num_partitions |-> P, num_parts_to_mask |-> ks] :
        sch \in {"partition", "systematic"}, P \in 1 .. MaxPartitions,
        ks \in SeqsUpTo(0 .. MaxPartitions + 1, MaxSweepLen)}

InitSweep ==
    /\ \E config \in SweepConfigs : masking_configs = <<config>>
    /\ num_clips \in 0 .. MaxNumClips
    /\ strategies = Unset /\ masks = <<>>
    /\ IdleLLM /\ IdleEval /\ IdleRun /\ IdleLock
    /\ strategy = Unset /\ twin = Unset /\ generators = <<>>
    /\ calls = <<>> /\ twin_calls = <<>>
    /\ clips = <<>> /\ video = Unset
    /\ masked_video = Unset /\ masked_indices = Unset /\ applied = Unset
    /\ reconstructed = Unset

GetMaskingStrategies ==
    /\ strategies = Unset
    /\ strategies' = get_masking_strategies(masking_configs, 0)
    /\ UNCHANGED <<lock_vars, llm_vars, eval_vars, run_vars, clips, video, strategy, twin, calls, twin_calls, generators,
                   masked_video, masked_indices, applied, reconstructed,
                   num_clips, masking_configs, masks>>

MaskNext ==
    /\ strategies # Unset /\ strategies.kind = "list"
    /\ Len(masks) < Len(strategies.items)
    /\ masks' = Append(masks,
          get_indices_to_mask(strategies.items[Len(masks) + 1], num_clips, <<>>).ret)
    /\ UNCHANGED <<lock_vars, llm_vars, eval_vars, run_vars, clips, video, strategy, twin, calls, twin_calls, generators,
                   masked_video, masked_indices, applied, reconstructed,
                   num_clips, masking_configs, strategies>>

NextSweep == GetMaskingStrategies \/ MaskNext

SpecSweep == InitSweep /\ [][NextSweep]_vars

SweepDone ==
    /\ strategies # Unset /\ strategies.kind = "list"
    /\ Len(masks) = Len(strategies.items)
SingleBlockSweep ==
    /\ masking_configs[1].scheme = "partition"
    /\ masking_configs[1].num_parts_to_mask = <<1>>

CoversEachIndexOnce ==
    /\ Len(strategies.items) = masking_configs[1].num_partitions
    /\ \A a, b \in 1 .. Len(strategies.items) :
          a # b => strategies.items[a] # strategies.items[b]
    /\ \A a, b \in 1 .. Len(masks) : a # b => masks[a].elems \cap masks[b].elems = {}
    /\ UNION {masks[a].elems : a \in 1 .. Len(masks)} = 0 .. num_clips - 1

\* C8 as stated: sweeping PartitionMasking with num_parts_to_mask = 1 over all
\* P starting partitions yields exactly P distinct instances whose mask sets on
\* a sequence of length N are pairwise disjoint and cover 0..N-1 exactly once.
SweepCoversEachIndexOnce ==
    (SweepDone /\ SingleBlockSweep) => CoversEachIndexOnce

\* C8, amended: the same for every length N >= P (and for N = 0); on a
\* non-empty sequence shorter than P every mask of the sweep is empty.
SweepCoversEachIndexOnceWhenEnoughClips ==
    (SweepDone /\ SingleBlockSweep) =>
        /\ (num_clips >= masking_configs[1].num_partitions \/ num_clips = 0) =>
              CoversEachIndexOnce
        /\ num_clips < masking_configs[1].num_partitions =>
              /\ Len(strategies.items) = masking_configs[1].num_partitions
              /\ \A a \in 1 .. Len(masks) : masks[a].elems = {}

\* The scenario of the spec: ten clips, five partitions, all five masks taken.
WitnessSweepTenInFive ==
    /\ SweepDone /\ SingleBlockSweep
    /\ num_clips = 10 /\ masking_configs[1].num_partitions = 5
    /\ Len(masks) = 5 /\ masks[5].elems = {8, 9}

RECURSIVE SumOf(_, _)
SumOf(f, i) == IF i > Len(f) THEN 0 ELSE f[i] + SumOf(f, i + 1)

\* C9: for a partition sweep spec with num_partitions = P and a list of
\* num_parts_to_mask values, get_masking_strategies returns, block counts in
\* list order and start_partition ascending, exactly one PartitionMasking per
\* listed k <= P and start s in 0 .. P-k: the sum over the listed k <= P of
\* (P-k+1) instances, in an order the input alone determines.
SweepEnumeratesEveryStart ==
    (strategies # Unset /\ masking_configs[1].scheme = "partition") =>
        LET P == masking_configs[1].num_partitions
            ks == masking_configs[1].num_parts_to_mask
            kept == SelectSeq(ks, LAMBDA k : k <= P)
            items == strategies.items
            \* position of the first instance of the j-th kept block count
            first(j) == 1 + SumOf([x \in 1 .. j - 1 |-> P - kept[x] + 1], 1)
        IN  /\ strategies.kind = "list"
            /\ Len(items) = SumOf([x \in 1 .. Len(kept) |-> P - kept[x] + 1], 1)
            /\ \A j \in 1 .. Len(kept) : \A st \in 0 .. P - kept[j] :
                  items[first(j) + st] = PartitionMasking(P, st, kept[j])
            /\ \A k \in ToSet(kept) : \A st \in 0 .. P - k :
                  Cardinality({q \in 1 .. Len(items) :
                                  items[q] = PartitionMasking(P, st, k)})
                      = Cardinality({x \in 1 .. Len(kept) : kept[x] = k})

\* The grid of the factory test: five partitions, block counts 1 and 2, nine
\* strategies.
WitnessSweepNineStrategies ==
    /\ strategies # Unset /\ masking_configs[1].scheme = "partition"
    /\ masking_configs[1].num_partitions = 5
    /\ masking_configs[1].num_parts_to_mask = <<1, 2>>
    /\ Len(strategies.items) = 9

----------------------------------------------------------------------------
\* Specification SpecLLM: an LLMStrategy reconstructs one masked video of the
\* run (ExperimentRunner.run: reconstruct).  The disk cache outlives runs, so
\* it may already hold a response for the prompt.

\* What mask_video returns for the video: one masked video per non-empty
\* index set.
MaskedVideos(v) ==
    {[v EXCEPT !.clips = mask_list(v.clips, S)] :
        S \in (SUBSET (0 .. Len(v.clips) - 1)) \ {{}}}

ResponseItems ==
    SeqsUpTo([index : 0 .. MaxClips - 1, caption : {"X"}], MaxItems)

ResponseTexts ==
    {Str("empty", <<>>), Str("invalid", <<>>)}
    \cup {Str("list", items) : items \in ResponseItems}

OracleBehaviours ==
    [transient : 0 .. MaxAttempts,
     final : {GenerateContentResponse(t) : t \in ResponseTexts \cup {NoneObj}}
             \cup {Raise("InvalidArgument")}]

InitLLM ==
    /\ video \in LoadedVideos
    /\ clips = video.clips
    /\ masked_video \in MaskedVideos(video)
    /\ masked_indices = IndexSet(Masked(masked_video))
    /\ llm_model = LLM_Manager("gemini", 0, "system")
    /\ \/ disk_cache = {}
       \/ \E t \in {Str("invalid", <<>>),
                    Str("list", <<[index |-> 0, caption |-> "X"]>>)} :
             disk_cache = {[key |-> cache_key(llm_model, build_prompt(masked_video)),
                            value |-> t]}
    /\ invocations = <<>> /\ llm_calls = <<>> /\ llm_step = Unset
    /\ strategy = Unset /\ twin = Unset /\ calls = <<>> /\ twin_calls = <<>>
    /\ generators = <<>> /\ applied = Unset /\ reconstructed = Unset
    /\ num_clips = 0 /\ masking_configs = Unset /\ strategies = Unset
    /\ masks = <<>>
    /\ IdleEval /\ IdleRun /\ IdleLock

LLMReconstruct ==
    /\ reconstructed = Unset
    /\ \E built \in {build_prompt(masked_video), Raise("ValueError")},
          o \in OracleBehaviours :
          LET r == LLM_reconstruct(llm_model, disk_cache, masked_video, built, o)
              c == call(llm_model, disk_cache, built, o)
          IN  /\ reconstructed' = r.result
              /\ disk_cache' = r.disk_cache
              /\ llm_model' = [llm_model EXCEPT !.last_raw_response = r.last_raw_response]
              /\ invocations' = invocations \o [i \in 1 .. r.sent |-> built]
              /\ llm_calls' = IF built.kind = "raise" THEN llm_calls
                              ELSE Append(llm_calls, [prompt |-> built, ret |-> c.ret,
                                                      sent |-> c.sent])
              /\ llm_step' = [built |-> built,
                              ret |-> IF built.kind = "raise" THEN Unset ELSE c.ret]
    /\ UNCHANGED <<lock_vars, eval_vars, run_vars, clips, video, strategy, twin, calls,
                   twin_calls, generators, masked_video, masked_indices, applied,
                   num_clips, masking_configs, strategies, masks>>

NextLLM == LLMReconstruct

SpecLLM == InitLLM /\ [][NextLLM]_vars

\* The last reconstruct got nothing usable: the prompt builder raised, the
\* oracle client raised or returned nothing, or the response did not parse
\* into a non-empty list.
NothingUsable ==
    \/ llm_step.built.kind = "raise"
    \/ /\ llm_step.built.kind # "raise"
       /\ \/ llm_step.ret.kind = "raise"
          \/ llm_step.ret.kind # "raise" /\ ~Truthy(llm_step.ret)
          \/ /\ llm_step.ret.kind # "raise" /\ Truthy(llm_step.ret)
             /\ llm_step.ret.json # "list" \/ llm_step.ret.items = <<>>

IsFailureResult(r) ==
    /\ r.kind = "Reconstructed"
    /\ r.reconstructed_captions = <<>>
    /\ r.debug_data # NoneObj
    /\ "error" \in DOMAIN r.debug_data

\* C12: LLMStrategy.reconstruct never raises for an oracle or parse failure:
\* when prompt building raises, the oracle call raises (a transient error that
\* exhausted its retries included) or returns nothing, or the response does
\* not parse into anything usable, reconstruct returns a result with
\* reconstructed_captions == {} and a debug_data that has an 'error' field.
LLMFailureIsCaptured ==
    (reconstructed # Unset /\ llm_step # Unset /\ NothingUsable) =>
        IsFailureResult(reconstructed)

\* The oracle failed transiently on all six attempts; the RetryError became a
\* failure result.
WitnessRetriesExhausted ==
    /\ llm_step # Unset /\ llm_step.built.kind # "raise"
    /\ llm_step.ret = Raise("RetryError")
    /\ Len(invocations) = MaxAttempts
    /\ IsFailureResult(reconstructed)
    /\ reconstructed.debug_data.error = "RetryError"

\* The items of the response the last reconstruct parsed, <<>> if there was
\* none.
ParsedItems ==
    IF /\ llm_step # Unset /\ llm_step.built.kind # "raise"
       /\ llm_step.ret.kind # "raise" /\ Truthy(llm_step.ret)
       /\ llm_step.ret.json = "list"
    THEN llm_step.ret.items ELSE <<>>

SuppliedIndices == {ParsedItems[p].index : p \in 1 .. Len(ParsedItems)}

DuplicatedIndices ==
    {i \in SuppliedIndices :
        \E p, q \in 1 .. Len(ParsedItems) :
            p # q /\ ParsedItems[p].index = i /\ ParsedItems[q].index = i}

SuppliedCaption(i) ==
    (CHOOSE e \in ToSet(ParsedItems) : e.index = i).caption

\* C13: if the parsed oracle response contains any index more than once,
\* LLMStrategy.reconstruct rejects the whole response: reconstructed_captions
\* is empty and debug_data.dups lists the duplicated indices, whatever other
\* indices the response holds.
LLMRejectsDuplicateIndices ==
    (reconstructed # Unset /\ DuplicatedIndices # {}) =>
        /\ reconstructed.kind = "Reconstructed"
        /\ reconstructed.reconstructed_captions = <<>>
        /\ reconstructed.debug_data # NoneObj
        /\ "dups" \in DOMAIN reconstructed.debug_data
        /\ ToSet(reconstructed.debug_data.dups) = DuplicatedIndices

\* C14: when a duplicate-free, non-empty parsed response omits some masked
\* indices, the result holds an entry for every masked index, the empty string
\* for each omitted one and the oracle's caption for each supplied one, and
\* debug_data.failed is exactly the list of omitted masked indices.
LLMFillsOmittedWithEmptyString ==
    (/\ reconstructed # Unset /\ ParsedItems # <<>> /\ DuplicatedIndices = {}
     /\ Masked(masked_video) \ SuppliedIndices # {}) =>
        LET omitted == Masked(masked_video) \ SuppliedIndices
        IN  /\ reconstructed.kind = "Reconstructed"
            /\ dict_keys(reconstructed.reconstructed_captions) = Masked(masked_video)
            /\ \A i \in Masked(masked_video) :
                  dict_get(reconstructed.reconstructed_captions, i) =
                      IF i \in omitted THEN "" ELSE SuppliedCaption(i)
            /\ reconstructed.debug_data # NoneObj
            /\ "failed" \in DOMAIN reconstructed.debug_data
            /\ ToSet(reconstructed.debug_data.failed) = omitted
            /\ Len(reconstructed.debug_data.failed) = Cardinality(omitted)

\* The oracle client returned None or the empty string to the last
\* reconstruct.
EmptyResponse ==
    /\ reconstructed # Unset /\ llm_step # Unset
    /\ llm_step.built.kind # "raise"
    /\ \/ llm_step.ret.kind = "None"
       \/ llm_step.ret.kind = "str" /\ llm_step.ret.json = "empty"

\* C26 as stated: on an empty or None response reconstruct returns a failure
\* result with reconstructed_captions == {} and debug_data.error equal to
\* "empty response".
EmptyResponseErrorIsEmptyResponse ==
    EmptyResponse =>
        /\ IsFailureResult(reconstructed)
        /\ reconstructed.debug_data.error = "empty response"

\* C26, amended: on an empty or None response reconstruct returns at once a
\* failure result with reconstructed_captions == {} whose debug_data holds the
\* error text "LLM error - llm_response_text empty" and the raw response; it
\* is not the "failed parsing" result that follows a call of the parser.
EmptyResponseIsImmediateFailure ==
    EmptyResponse =>
        /\ IsFailureResult(reconstructed)
        /\ reconstructed.debug_data.error = "LLM error - llm_response_text empty"
        /\ reconstructed.debug_data.raw_response = llm_model.last_raw_response

\* The oracle answered the first attempt with an empty text: nothing was
\* stored and the failure result names the empty response.
WitnessEmptyResponse ==
    /\ EmptyResponse /\ llm_step.ret = Str("empty", <<>>)
    /\ Len(invocations) = 1 /\ disk_cache = {}
    /\ reconstructed.debug_data.error = "LLM error - llm_response_text empty"
    /\ reconstructed.debug_data.raw_response =
           GenerateContentResponse(Str("empty", <<>>))

\* C27: every masked index a duplicate-free parsed response supplies with a
\* caption is accepted: it is listed as ok, never as failed, and
\* reconstructed_captions[index] is the response's caption.
LLMAcceptsSuppliedMaskedIndices ==
    (reconstructed # Unset /\ ParsedItems # <<>> /\ DuplicatedIndices = {}) =>
        \A i \in Masked(masked_video) \cap SuppliedIndices :
            /\ reconstructed.kind = "Reconstructed"
            /\ i \in dict_keys(reconstructed.reconstructed_captions)
            /\ dict_get(reconstructed.reconstructed_captions, i) = SuppliedCaption(i)
            /\ reconstructed.debug_data # NoneObj =>
                  /\ "ok" \in DOMAIN reconstructed.debug_data
                  /\ i \in ToSet(reconstructed.debug_data.ok)
                  /\ i \notin ToSet(reconstructed.debug_data.failed)

\* The non-masked indices the parsed response gives a caption that differs
\* from the original one.
ChangedUnmasked ==
    {i \in Unmasked(masked_video) \cap SuppliedIndices :
        SuppliedCaption(i) # video.clips[i + 1].caption}

\* C28: when the parsed response changes the caption of a non-masked index,
\* reconstruct records the index in debug_data.changed_unmasked together with
\* the response text and does not fail: the masked indices the response
\* supplies are still returned, and reconstructed_captions has no key that was
\* not masked.
LLMRecordsChangedUnmasked ==
    (/\ reconstructed # Unset /\ ParsedItems # <<>> /\ DuplicatedIndices = {}
     /\ ChangedUnmasked # {}) =>
        /\ reconstructed.kind = "Reconstructed"
        /\ dict_keys(reconstructed.reconstructed_captions) \subseteq Masked(masked_video)
        /\ \A i \in Masked(masked_video) \cap SuppliedIndices :
              /\ i \in dict_keys(reconstructed.reconstructed_captions)
              /\ dict_get(reconstructed.reconstructed_captions, i) = SuppliedCaption(i)
        /\ reconstructed.debug_data # NoneObj
        /\ "changed_unmasked" \in DOMAIN reconstructed.debug_data
        /\ ToSet(reconstructed.debug_data.changed_unmasked) = ChangedUnmasked
        /\ "llm_response_text" \in DOMAIN reconstructed.debug_data

----------------------------------------------------------------------------
\* Specification SpecAlign: a Reconstructed built from a mapping (as the tests
\* and check_recon.py do) is aligned with, and evaluated against, the clips of
\* a loaded video.

ReconstructedDicts ==
    {d \in SeqsUpTo([index : 0 .. MaxClips - 1, caption : {"X", ""}], MaxItems) :
        \A p, q \in 1 .. Len(d) : p # q => d[p].index # d[q].index}

\* Scores in hundredths.
ScoreValues == {80, 95}
ScorerOutputs ==
    LET Rows == {[i \in 1 .. MaxItems |-> v] : v \in ScoreValues}
    IN  [P : Rows, R : Rows, F1 : Rows]

InitAlign ==
    /\ video \in LoadedVideos
    /\ clips = video.clips
    /\ \E d \in ReconstructedDicts : reconstructed = Reconstructed(video.video_id, d)
    /\ strategy = Unset /\ twin = Unset /\ calls = <<>> /\ twin_calls = <<>>
    /\ generators = <<>>
    /\ masked_video = Unset /\ masked_indices = Unset /\ applied = Unset
    /\ num_clips = 0 /\ masking_configs = Unset /\ strategies = Unset
    /\ masks = <<>>
    /\ IdleLLM /\ IdleEval /\ IdleRun /\ IdleLock

Align ==
    /\ aligned = Unset
    /\ aligned' = align(reconstructed, video.clips)
    /\ UNCHANGED <<lock_vars, llm_vars, run_vars, heap, returned, history, evaluated,
                   scorer_calls, clips, video, strategy, twin, calls, twin_calls,
                   generators, masked_video, masked_indices, applied,
                   reconstructed, num_clips, masking_configs, strategies, masks>>

Evaluate ==
    /\ evaluated = Unset
    /\ \E scores \in ScorerOutputs :
          LET r == evaluate(reconstructed.reconstructed_captions, video.clips,
                            IndexSet(dict_keys(reconstructed.reconstructed_captions)),
                            scores)
          IN  /\ evaluated' = r.ret
              /\ scorer_calls' = scorer_calls \o r.scored
    /\ UNCHANGED <<lock_vars, llm_vars, run_vars, heap, returned, history, aligned, clips,
                   video, strategy, twin, calls, twin_calls, generators,
                   masked_video, masked_indices, applied, reconstructed, num_clips,
                   masking_configs, strategies, masks>>

NextAlign == Align \/ Evaluate

SpecAlign == InitAlign /\ [][NextAlign]_vars

\* C15: for a mapping whose indices are positions of original_clips,
\* Reconstructed.align returns, for the entries of reconstructed_captions in
\* mapping order, the reconstructed caption in candidates and
\* original_clips[index].caption at the same position in references; both
\* lists are as long as the mapping, and an empty mapping gives ([], []).  An
\* index past the end of original_clips makes align raise.
AlignPairsInMappingOrder ==
    aligned # Unset =>
        LET d == reconstructed.reconstructed_captions
        IN  IF dict_keys(d) \subseteq 0 .. Len(video.clips) - 1
            THEN /\ aligned.kind = "pair"
                 /\ Len(aligned.candidates) = Len(d)
                 /\ Len(aligned.references) = Len(d)
                 /\ \A p \in 1 .. Len(d) :
                       /\ aligned.candidates[p] = d[p].caption
                       /\ aligned.references[p] = video.clips[d[p].index + 1].caption
                 /\ d = <<>> =>
                       aligned.candidates = <<>> /\ aligned.references = <<>>
            ELSE aligned.kind = "raise"

\* The mapping lists index 2 before index 0; the references follow that order.
WitnessAlignedOutOfOrder ==
    /\ aligned # Unset /\ aligned.kind = "pair"
    /\ Len(video.clips) = 3
    /\ video.clips[1].caption = "A" /\ video.clips[3].caption = "B"
    /\ Len(reconstructed.reconstructed_captions) = 2
    /\ reconstructed.reconstructed_captions[1].index = 2
    /\ reconstructed.reconstructed_captions[2].index = 0
    /\ aligned.references = <<"B", "A">>

\* The candidates and references evaluate is to score.
Alignment == align(reconstructed, video.clips)

\* C16: ReconstructionEvaluator.evaluate returns an empty metrics object and
\* never invokes the scoring oracle when the aligned candidate list is empty;
\* otherwise it invokes the oracle exactly once, on the aligned candidates and
\* references, and returns one precision, recall and F1 value per scored
\* position.
EvaluateScoresAlignedPairs ==
    (evaluated # Unset /\ Alignment.kind = "pair") =>
        IF Alignment.candidates = <<>>
        THEN evaluated = EmptyDict /\ scorer_calls = <<>>
        ELSE /\ scorer_calls = <<[cands |-> Alignment.candidates,
                                  refs |-> Alignment.references]>>
             /\ evaluated.kind = "dict"
             /\ DOMAIN evaluated = {"kind", "num_captions", "masked", "bs_p", "bs_r", "bs_f1"}
             /\ Len(evaluated.bs_p) = Len(Alignment.candidates)
             /\ Len(evaluated.bs_r) = Len(Alignment.candidates)
             /\ Len(evaluated.bs_f1) = Len(Alignment.candidates)

----------------------------------------------------------------------------
\* Specification SpecChain: skip and with_metrics are called, each on what the
\* call before it returned, on the result a reconstruction strategy produced.

SkipReasons == {[kind |-> "str", text |-> "failed>0"],
                [kind |-> "str", text |-> "masked_indices"]}

RoundedMetrics == {[kind |-> "dict", bs_f1 |-> <<f>>] : f \in ScoreValues}

FailedParsing(video_id) ==
    Reconstructed_debug(video_id, <<>>,
        [kind |-> "dict", error |-> "LLM error - failed parsing",
         raw_response |-> NoneObj])

InitChain ==
    /\ video \in LoadedVideos
    /\ clips = video.clips
    /\ masked_video \in MaskedVideos(video)
    /\ masked_indices = IndexSet(Masked(masked_video))
    /\ \/ /\ Baseline_reconstruct(masked_video).kind = "Reconstructed"
          /\ reconstructed = Baseline_reconstruct(masked_video)
       \/ reconstructed = FailedParsing(masked_video.video_id)
    /\ heap = <<reconstructed>>
    /\ returned = <<>> /\ history = <<>>
    /\ aligned = Unset /\ evaluated = Unset /\ scorer_calls = <<>>
    /\ strategy = Unset /\ twin = Unset /\ calls = <<>> /\ twin_calls = <<>>
    /\ generators = <<>> /\ applied = Unset
    /\ num_clips = 0 /\ masking_configs = Unset /\ strategies = Unset
    /\ masks = <<>>
    /\ IdleLLM /\ IdleRun /\ IdleLock

\* The object the next call of a chain is made on.
ChainTarget == IF returned = <<>> THEN 1 ELSE returned[Len(returned)]

Skip ==
    /\ Len(history) < MaxCalls
    /\ \E reason \in SkipReasons :
          LET r == Reconstructed_skip(heap, ChainTarget, reason)
          IN  /\ heap' = r.heap
              /\ returned' = Append(returned, r.ret)
              /\ history' = Append(history, [method |-> "skip", arg |-> reason])
    /\ UNCHANGED <<lock_vars, llm_vars, run_vars, aligned, evaluated, scorer_calls, clips,
                   video, strategy, twin, calls, twin_calls, generators,
                   masked_video, masked_indices, applied, reconstructed, num_clips,
                   masking_configs, strategies, masks>>

WithMetrics ==
    /\ Len(history) < MaxCalls
    /\ \E metrics \in RoundedMetrics :
          LET r == Reconstructed_with_metrics(heap, ChainTarget, metrics)
          IN  /\ heap' = r.heap
              /\ returned' = Append(returned, r.ret)
              /\ history' = Append(history, [method |-> "with_metrics", arg |-> metrics])
    /\ UNCHANGED <<lock_vars, llm_vars, run_vars, aligned, evaluated, scorer_calls, clips,
                   video, strategy, twin, calls, twin_calls, generators,
                   masked_video, masked_indices, applied, reconstructed, num_clips,
                   masking_configs, strategies, masks>>

NextChain == Skip \/ WithMetrics

SpecChain == InitChain /\ [][NextChain]_vars

\* The argument of the last call of `method`, or None if it was never called.
LastArg(method) ==
    LET ps == {p \in 1 .. Len(history) : history[p].method = method}
    IN  IF ps = {} THEN NoneObj ELSE history[Max(ps)].arg

\* C17: Reconstructed.skip(reason) and Reconstructed.with_metrics(metrics)
\* are idempotent and chainable: each returns the object it was called on and
\* sets only its own field, leaving video_id, reconstructed_captions,
\* debug_data and the other field as they were; applying it twice with the same
\* argument gives the same state as applying it once.
SkipAndMetricsChain ==
    history # <<>> =>
        /\ Len(heap) = 1
        /\ \A p \in 1 .. Len(returned) : returned[p] = 1
        /\ heap[1].video_id = reconstructed.video_id
        /\ heap[1].reconstructed_captions = reconstructed.reconstructed_captions
        /\ heap[1].debug_data = reconstructed.debug_data
        /\ heap[1].skip_reason = LastArg("skip")
        /\ heap[1].metrics = LastArg("with_metrics")
        /\ \A reason \in SkipReasons :
              LET once == Reconstructed_skip(heap, 1, reason)
              IN  Reconstructed_skip(once.heap, once.ret, reason) = once
        /\ \A metrics \in RoundedMetrics :
              LET once == Reconstructed_with_metrics(heap, 1, metrics)
              IN  Reconstructed_with_metrics(once.heap, once.ret, metrics) = once

\* recon.skip(reason).with_metrics(metrics): one object holds both.
WitnessSkipThenMetrics ==
    /\ Len(history) = 2
    /\ history[1].method = "skip" /\ history[2].method = "with_metrics"
    /\ returned = <<1, 1>>
    /\ heap[1].skip_reason = history[1].arg
    /\ heap[1].metrics = history[2].arg
    /\ heap[1].reconstructed_captions # <<>>

----------------------------------------------------------------------------
\* experiment_runner.py: ExperimentRunner.run

\* obj.name on a pydantic model: a name that is not a field raises.
HasAttr(obj, name) == name \in DOMAIN obj

\* A line of all_recon_videos that is not the dump of a Reconstructed.
SkipLine(v, what) == [kind |-> "str", text |-> what, video_id |-> v.video_id]

\* reconstructed.skip(reason).model_dump_json()
SkippedDump(reconstructed_obj, reason) ==
    Reconstructed_skip(<<reconstructed_obj>>, 1, reason).heap[1]

\* bool(d) of a dict-or-None.
TruthyDict(d) == d # NoneObj /\ DOMAIN d # {"kind"}

\* debug_data.get('failed', 0) is truthy.
HasFailed(d) == "failed" \in DOMAIN d /\ d.failed # <<>>

\* round(x, ndigits) of a score x given in hundredths: to the nearest multiple
\* of 10^-ndigits, ties to the even one.
round_score(x, ndigits) ==
    IF ndigits >= 2 THEN x
    ELSE LET unit == IF ndigits = 1 THEN 10 ELSE 100
             lo == (x \div unit) * unit
         IN  IF 2 * (x - lo) < unit THEN lo
             ELSE IF 2 * (x - lo) > unit THEN lo + unit
             ELSE IF (lo \div unit) % 2 = 0 THEN lo ELSE lo + unit

\* round_metrics: the bs_ lists rounded, every other entry kept.
round_metrics(metrics, ndigits) ==
    IF metrics = EmptyDict THEN metrics
    ELSE [metrics EXCEPT
            !.bs_p = [i \in 1 .. Len(@) |-> round_score(@[i], ndigits)],
            !.bs_r = [i \in 1 .. Len(@) |-> round_score(@[i], ndigits)],
            !.bs_f1 = [i \in 1 .. Len(@) |-> round_score(@[i], ndigits)]]

\* self.evaluator.evaluate(reconstructed, video): evaluate takes three
\* arguments besides self.
evaluate_call(args, scores) ==
    IF Len(args) # 3 THEN Raise("TypeError")
    ELSE evaluate(args[1], args[2], args[3], scores).ret

\* The body of the loop from line 46 on, for one video: the lines appended to
\* all_recon_videos and to all_metrics, or the exception that ends run().
after_reconstruct(reconstructed_obj, v, indices) ==
    IF ~HasAttr(reconstructed_obj, "reconstructed_clips")
    THEN Raise("AttributeError")
    ELSE LET rc == reconstructed_obj.reconstructed_clips
             dd == reconstructed_obj.debug_data
         IN  IF rc = <<>>
             THEN [kind |-> "continue", lines |-> <<SkipLine(v, "SKIP FAIL")>>,
                   metrics |-> <<>>]
             ELSE IF dict_keys(rc) # indices.elems /\ ~TruthyDict(dd)
             THEN Raise("Exception")
             ELSE IF TruthyDict(dd) /\ HasFailed(dd)
             THEN [kind |-> "continue",
                   lines |-> <<SkippedDump(reconstructed_obj,
                                           [kind |-> "str", text |-> "failed>0"])>>,
                   metrics |-> <<>>]
             ELSE IF dict_keys(rc) # indices.elems
             THEN Raise("AttributeError")    \* reconstructed.indices in the log line
             ELSE LET video_metrics == evaluate_call(<<reconstructed_obj, v>>, NoneObj)
                  IN  IF video_metrics.kind = "raise" THEN video_metrics
                      ELSE [kind |-> "continue",
                            lines |-> <<Reconstructed_with_metrics(
                                          <<reconstructed_obj>>, 1,
                                          round_metrics(video_metrics, 6)).heap[1]>>,
                            metrics |-> <<video_metrics>>]

\* Whether one turn of the loop invoked evaluator.evaluate: it appended the
\* video's metrics, or it ended with the TypeError that only the evaluate call
\* of the loop body raises.
evaluate_invoked(out) ==
    \/ out.kind = "raise" /\ out.type = "TypeError"
    \/ out.kind = "continue" /\ out.metrics # <<>>

\* Faulty variant: a video without a mask is not skipped.
run_video_without_skip(v, m, rec) ==
    IF rec.kind # "Reconstructed" THEN Raise(rec.kind)
    ELSE after_reconstruct(rec, v, m.indices)

\* One turn of the loop once mask_video returned m and, unless the video is
\* skipped before, reconstruct returned or raised `rec`.
run_video(v, m, rec) ==
    IF m.video = NoneObj
    THEN [kind |-> "continue", lines |-> <<SkipLine(v, "SKIP NOT_MASKING")>>,
          metrics |-> <<>>]
    ELSE IF rec.kind # "Reconstructed" THEN Raise(rec.kind)
    ELSE after_reconstruct(rec, v, m.indices)

\* statistics.mean of the per-video minima, as an exact fraction.
mean_of_min(all_m, key) ==
    [num |-> SumOf([p \in 1 .. Len(all_m) |-> Min(ToSet(all_m[p][key]))], 1),
     den |-> Len(all_m)]

\* run() after the loop.
finish(all_m, lines) ==
    IF all_m = <<>> THEN EmptyDict
    ELSE [kind |-> "pair",
          agg_metrics |-> [num_of_instances |-> Len(all_m),
                           mean_f1_score |-> mean_of_min(all_m, "bs_f1"),
                           mean_precision |-> mean_of_min(all_m, "bs_p"),
                           mean_recall |-> mean_of_min(all_m, "bs_r")],
          all_recon_videos |-> lines]

----------------------------------------------------------------------------
\* Specification SpecRun: ExperimentRunner.run over the videos a data loader
\* returned, with one masking strategy and either reconstruction strategy.

\* One loaded video of every length.
RunVideos ==
    {v \in LoadedVideos : \A p \in 1 .. Len(v.clips) : v.clips[p].caption = "A"}

\* What the oracle does during a run.
RunOracleBehaviours ==
    {o \in OracleBehaviours :
        /\ o.transient \in {0, MaxAttempts}
        /\ o.final \in {GenerateContentResponse(Str("empty", <<>>)),
                        GenerateContentResponse(
                            Str("list", <<[index |-> 0, caption |-> "X"]>>))}}

\* The masking strategies of a run that draw from a generator: ratio zero, a
\* ratio of about one half, and every contiguous width up to the longest video.
RunGeneratorStrategies ==
    {RandomMasking(0, random_Random(1)),
     RandomMasking(RatioDen \div 2, random_Random(1))}
    \cup {ContiguousMasking(random_Random(1), w) : w \in 1 .. MaxClips}

\* The streams of raw draws followed in a run.
RunStreams == {[i \in 1 .. StreamLen |-> d] : d \in {0, MaxClips - 1}}

InitRun ==
    /\ all_videos \in SeqsUpTo(RunVideos, MaxVideos)
    /\ \/ strategy \in PartitionStrategies(MaxClips + 1, MaxClips) /\ generators = <<>>
       \/ strategy \in RunGeneratorStrategies /\ generators \in [{1} -> RunStreams]
    /\ recon_strategy \in {"baseline", "llm"}
    /\ llm_model = LLM_Manager("gemini", 0, "system")
    /\ disk_cache = {} /\ invocations = <<>> /\ llm_calls = <<>> /\ llm_step = Unset
    /\ position = 0 /\ all_metrics = <<>> /\ all_recon_videos = <<>>
    /\ run_result = Unset /\ run_calls = <<>>
    /\ clips = <<>> /\ video = Unset
    /\ twin = Unset /\ calls = <<>> /\ twin_calls = <<>>
    /\ masked_video = Unset /\ masked_indices = Unset /\ applied = Unset
    /\ reconstructed = Unset /\ num_clips = 0 /\ masking_configs = Unset
    /\ strategies = Unset /\ masks = <<>>
    /\ IdleEval /\ IdleLock

\* The loop body for the video at `position`.
RunVideo ==
    /\ run_result = Unset
    /\ position < Len(all_videos)
    /\ CanDraw(strategy, Len(all_videos[position + 1].clips), generators)
    /\ LET v == all_videos[position + 1]
           m == mask_video(strategy, v, GeneratorOf(strategy, generators))
       IN  /\ video' = v
           /\ masked_video' = m.video
           /\ masked_indices' = m.indices
           /\ generators' = StoreGenerator(strategy, generators, m.prn)
           /\ calls' = Append(calls, m.ret)
           /\ \E o \in RunOracleBehaviours :
                 LET l == LLM_reconstruct(llm_model, disk_cache, m.video,
                                          build_prompt(m.video), o)
                     called == m.video # NoneObj /\ recon_strategy = "llm"
                     rec == IF m.video = NoneObj THEN Unset
                            ELSE IF recon_strategy = "baseline"
                            THEN Baseline_reconstruct(m.video)
                            ELSE l.result
                     out == run_video(v, m, rec)
                 IN  /\ reconstructed' = rec
                     /\ disk_cache' = IF called THEN l.disk_cache ELSE disk_cache
                     /\ llm_model' = IF called
                                     THEN [llm_model EXCEPT !.last_raw_response =
                                                               l.last_raw_response]
                                     ELSE llm_model
                     /\ invocations' =
                           IF called
                           THEN invocations \o [i \in 1 .. l.sent |-> build_prompt(m.video)]
                           ELSE invocations
                     /\ llm_calls' =
                           IF called
                           THEN Append(llm_calls,
                                  LET c == call(llm_model, disk_cache,
                                                build_prompt(m.video), o)
                                  IN  [prompt |-> build_prompt(m.video),
                                       ret |-> c.ret, sent |-> c.sent])
                           ELSE llm_calls
                     /\ run_calls' = Append(run_calls,
                           [reconstruct |-> m.video # NoneObj,
                            evaluate |-> evaluate_invoked(out)])
                     /\ IF out.kind = "continue"
                        THEN /\ all_recon_videos' = all_recon_videos \o out.lines
                             /\ all_metrics' = all_metrics \o out.metrics
                             /\ position' = position + 1
                             /\ run_result' = run_result
                        ELSE /\ run_result' = out
                             /\ UNCHANGED <<lock_vars, all_recon_videos, all_metrics, position>>
    /\ UNCHANGED <<lock_vars, eval_vars, recon_strategy, all_videos, llm_step,
                   clips, strategy, twin, twin_calls, applied, num_clips,
                   masking_configs, strategies, masks>>

\* The loop is over: run() returns.
Finish ==
    /\ run_result = Unset
    /\ position = Len(all_videos)
    /\ run_result' = finish(all_metrics, all_recon_videos)
    /\ UNCHANGED <<lock_vars, llm_vars, eval_vars, recon_strategy, all_videos,
                   position, all_metrics, all_recon_videos, run_calls, clips,
                   video, strategy, twin,
                   calls, twin_calls, generators, masked_video, masked_indices,
                   applied, reconstructed, num_clips, masking_configs, strategies,
                   masks>>

NextRun == RunVideo \/ Finish

SpecRun == InitRun /\ [][NextRun]_vars

\* The reconstruction of the video run() is at failed: reconstruct raised, or
\* returned a result without captions.
ReconstructionFailed ==
    /\ reconstructed # Unset
    /\ \/ reconstructed.kind # "Reconstructed"
       \/ reconstructed.reconstructed_captions = <<>>

\* C18: a video whose reconstruction fails, or whose result does not match the
\* mask, is recorded with a skip reason and left out of the aggregates, and
\* the run goes on with the next video: run() never ends with an exception at
\* such a video, and it returns only after the loop has passed every video.
FailedVideoIsNotFatal ==
    /\ (run_result # Unset /\ run_result.kind = "raise") => ~ReconstructionFailed
    /\ (run_result # Unset /\ run_result.kind # "raise") =>
          /\ position = Len(all_videos)
          /\ Len(all_recon_videos) = Len(all_videos)

\* The videos of the run the baseline reconstructs in full: the mask is not
\* empty and at least one caption is kept.
Scorable ==
    {p \in 1 .. Len(calls) :
        /\ ~Falsy(calls[p])
        /\ calls[p].elems # 0 .. Len(all_videos[p].clips) - 1}

\* C19: the batch's mean_f1, mean_precision and mean_recall are each the
\* arithmetic mean, over exactly the videos that were scored, of the video's
\* minimum per-clip score; skipped videos contribute nothing.  With the
\* baseline, every video with a non-empty mask that keeps a caption is scored.
BatchMeansAreMeanOfMinima ==
    (run_result # Unset /\ recon_strategy = "baseline" /\ Scorable # {}) =>
        /\ run_result.kind = "pair"
        /\ Len(all_metrics) = Cardinality(Scorable)
        /\ run_result.agg_metrics.num_of_instances = Cardinality(Scorable)
        /\ \A key \in {"bs_f1", "bs_p", "bs_r"} :
              LET mean == CASE key = "bs_f1" -> run_result.agg_metrics.mean_f1_score
                            [] key = "bs_p" -> run_result.agg_metrics.mean_precision
                            [] key = "bs_r" -> run_result.agg_metrics.mean_recall
              IN  /\ mean.den = Len(all_metrics)
                  /\ mean.num = SumOf([p \in 1 .. Len(all_metrics) |->
                                          Min(ToSet(all_metrics[p][key]))], 1)

\* A line of all_recon_videos that records a skip: a SKIP string, or the dump
\* of a result that carries a skip reason.
IsSkipEntry(line) ==
    \/ line.kind = "str"
    \/ line.kind = "Reconstructed" /\ line.skip_reason # NoneObj

\* C23: after run() the artifact log handed back to the caller holds one entry
\* per video, the entries of the skipped videos with their reasons included,
\* also when no video was scored.
ArtifactLogIsReturned ==
    (run_result # Unset /\ run_result.kind # "raise" /\ all_recon_videos # <<>>) =>
        /\ run_result.kind = "pair"
        /\ run_result.all_recon_videos = all_recon_videos
        /\ Len(all_recon_videos) = Len(all_videos)

\* The result of the video run() is at does not cover exactly the mask.
IndexMismatch ==
    /\ reconstructed # Unset /\ reconstructed.kind = "Reconstructed"
    /\ dict_keys(reconstructed.reconstructed_captions) # masked_indices.elems

\* C24: when the reconstructed index set differs from the mask: without
\* debug_data run() raises at that video; with debug_data the video is
\* recorded with a skip reason, is not evaluated, and the loop goes on.
MismatchFatalUnlessDiagnosed ==
    IndexMismatch =>
        IF ~TruthyDict(reconstructed.debug_data)
        THEN /\ run_result = Raise("Exception")
             /\ position < Len(all_videos) /\ all_videos[position + 1] = video
        ELSE /\ run_result = Unset \/ run_result.kind # "raise"
             /\ position >= 1 /\ all_videos[position] = video
             /\ Len(all_recon_videos) = position
             /\ IsSkipEntry(all_recon_videos[position])
             /\ ~run_calls[position].evaluate

\* C25: a video for which the strategy yields an empty mask or none (ratio
\* zero, an empty clip list, contiguous width >= length are such) gets a
\* "SKIP ... NOT_MASKING" entry, and neither reconstruct nor evaluate is
\* invoked for it.
UnmaskedVideoIsSkipped ==
    \A p \in 1 .. Len(calls) :
        LET n == Len(all_videos[p].clips)
            nothing == calls[p] = NoneObj \/ calls[p].elems = {}
        IN  /\ ( \/ n = 0
                 \/ strategy.scheme = "random" /\ strategy.ratio = 0
                 \/ strategy.scheme = "contiguous" /\ strategy.width >= n ) => nothing
            /\ nothing =>
                  /\ ~run_calls[p].reconstruct /\ ~run_calls[p].evaluate
                  /\ Len(all_recon_videos) >= p
                  /\ all_recon_videos[p] = SkipLine(all_videos[p], "SKIP NOT_MASKING")

\* Both videos of a run were skipped: the first has no clips, the second is
\* exactly as long as the contiguous width.
WitnessSkippedTooShortVideo ==
    /\ strategy.scheme = "contiguous" /\ Len(all_videos) = 2
    /\ Len(run_calls) = 2 /\ position = 2
    /\ all_videos[1].clips = <<>>
    /\ strategy.width = Len(all_videos[2].clips)
    /\ calls[2] = NoneObj
    /\ ~run_calls[2].reconstruct
    /\ all_recon_videos[2] = SkipLine(all_videos[2], "SKIP NOT_MASKING")

\* The oracle answered the reconstruct of the video run() is at with a
\* duplicate-free, non-empty list that leaves out a masked index.
ResponseOmitsMaskedIndex ==
    /\ recon_strategy = "llm" /\ run_calls # <<>> /\ llm_calls # <<>>
    /\ run_calls[Len(run_calls)].reconstruct
    /\ LET ret == llm_calls[Len(llm_calls)].ret
       IN  /\ ret.kind = "str" /\ ret.json = "list" /\ ret.items # <<>>
           /\ \A i, j \in 1 .. Len(ret.items) :
                 i # j => ret.items[i].index # ret.items[j].index
           /\ Masked(masked_video) \ {ret.items[i].index : i \in 1 .. Len(ret.items)} # {}

\* C29: a video whose oracle response leaves out a masked index still reaches
\* scoring: evaluate is invoked for it, with "" as the candidate of the
\* missing index, and its metrics enter the aggregate.
MissingIndexVideoIsScored ==
    ResponseOmitsMaskedIndex =>
        /\ run_calls[Len(run_calls)].evaluate
        /\ run_result = Unset \/ run_result.kind # "raise"
        /\ all_metrics # <<>>
        /\ reconstructed.kind = "Reconstructed"
        /\ \E i \in Masked(masked_video) :
              /\ i \in dict_keys(reconstructed.reconstructed_captions)
              /\ dict_get(reconstructed.reconstructed_captions, i) = ""

\* C30: once run() has ended every video is either skipped or scored, never
\* both: scored plus skipped videos are all the videos loaded, num_of_instances
\* is the number of videos evaluate was invoked for, and no log entry carries
\* both a skip reason and metrics.
EveryVideoSkippedOrScored ==
    run_result # Unset =>
        LET scored == {p \in 1 .. Len(run_calls) : run_calls[p].evaluate}
            skipped == {p \in 1 .. Len(all_recon_videos) :
                           IsSkipEntry(all_recon_videos[p])}
        IN  /\ run_result.kind # "raise"
            /\ Cardinality(scored) + Cardinality(skipped) = Len(all_videos)
            /\ scored \cap skipped = {}
            /\ IF run_result.kind = "pair"
               THEN run_result.agg_metrics.num_of_instances = Cardinality(scored)
               ELSE scored = {}
            /\ \A p \in 1 .. Len(all_recon_videos) :
                  all_recon_videos[p].kind = "Reconstructed" =>
                      ~(/\ all_recon_videos[p].skip_reason # NoneObj
                        /\ all_recon_videos[p].metrics # NoneObj)

----------------------------------------------------------------------------
\* Specification SpecCache: a sequence of LLM_Manager.call operations on one
\* manager.  The cache directory is shared, so the cache may hold an entry
\* another model configuration stored for the same prompt.

CachePrompts ==
    {build_prompt(mv) :
        mv \in UNION {MaskedVideos(v) : v \in {x \in RunVideos : Len(x.clips) = 2}}}

CacheOracleBehaviours ==
    [transient : {0, 1, MaxAttempts},
     final : {GenerateContentResponse(Str("empty", <<>>)),
              GenerateContentResponse(NoneObj),
              GenerateContentResponse(Str("invalid", <<>>)),
              GenerateContentResponse(Str("list", <<[index |-> 0, caption |-> "X"]>>)),
              Raise("InvalidArgument")}]

InitCache ==
    /\ llm_model = LLM_Manager("gemini", 0, "system")
    /\ \/ disk_cache = {}
       \/ \E prompt \in CachePrompts :
             disk_cache = {[key |-> cache_key(LLM_Manager("gemini", 1, "system"), prompt),
                            value |-> Str("invalid", <<>>)]}
    /\ invocations = <<>> /\ llm_calls = <<>> /\ llm_step = Unset
    /\ clips = <<>> /\ video = Unset
    /\ strategy = Unset /\ twin = Unset /\ calls = <<>> /\ twin_calls = <<>>
    /\ generators = <<>>
    /\ masked_video = Unset /\ masked_indices = Unset /\ applied = Unset
    /\ reconstructed = Unset /\ num_clips = 0 /\ masking_configs = Unset
    /\ strategies = Unset /\ masks = <<>>
    /\ IdleEval /\ IdleRun /\ IdleLock

Call ==
    /\ Len(llm_calls) < MaxCalls
    /\ \E prompt \in CachePrompts, o \in CacheOracleBehaviours :
          LET c == call(llm_model, disk_cache, prompt, o)
          IN  /\ disk_cache' = c.disk_cache
              /\ llm_model' = [llm_model EXCEPT !.last_raw_response = c.last_raw_response]
              /\ invocations' = invocations \o [i \in 1 .. c.sent |-> prompt]
              /\ llm_calls' = Append(llm_calls, [prompt |-> prompt, ret |-> c.ret,
                                                 sent |-> c.sent])
    /\ UNCHANGED <<lock_vars, eval_vars, run_vars, llm_step, clips, video, strategy, twin,
                   calls, twin_calls, generators, masked_video, masked_indices,
                   applied, reconstructed, num_clips, masking_configs, strategies,
                   masks>>

NextCache == Call

SpecCache == InitCache /\ [][NextCache]_vars

TimesSent(prompt) ==
    Cardinality({i \in 1 .. Len(invocations) : invocations[i] = prompt})

\* The call returned a non-empty response.
Answered(c) == c.ret.kind # "raise" /\ Truthy(c.ret)

\* C20 as stated: identical prompts are never re-sent: the oracle is invoked
\* at most once per distinct prompt text, and every repeated call with a
\* prompt returns the response of the first.
PromptSentAtMostOnce ==
    /\ \A prompt \in CachePrompts : TimesSent(prompt) <= 1
    /\ \A i, j \in 1 .. Len(llm_calls) :
          (i < j /\ llm_calls[i].prompt = llm_calls[j].prompt) =>
              llm_calls[j].ret = llm_calls[i].ret

\* C20, amended: once a call has returned a non-empty response for a prompt,
\* the oracle is not invoked for that prompt again and every later call with
\* it returns that response.  A call that raised or returned an empty response
\* stores nothing, and one call sends its prompt up to six times while the
\* oracle fails transiently.
AnsweredPromptIsNotResent ==
    /\ \A i, j \in 1 .. Len(llm_calls) :
          (i < j /\ llm_calls[i].prompt = llm_calls[j].prompt
                 /\ Answered(llm_calls[i])) =>
              /\ llm_calls[j].sent = 0
              /\ llm_calls[j].ret = llm_calls[i].ret
    /\ \A i \in 1 .. Len(llm_calls) : llm_calls[i].sent <= MaxAttempts
    /\ \A prompt \in CachePrompts :
          \A i \in 1 .. Len(llm_calls) :
              (llm_calls[i].prompt = prompt /\ Answered(llm_calls[i])) =>
                  TimesSent(prompt) =
                      SumOf([j \in 1 .. i |->
                                IF llm_calls[j].prompt = prompt
                                THEN llm_calls[j].sent ELSE 0], 1)

\* The first call got its answer on the second attempt; the second call with
\* the same prompt was served from the cache.
WitnessSecondCallCached ==
    /\ Len(llm_calls) = 2
    /\ llm_calls[1].prompt = llm_calls[2].prompt
    /\ llm_calls[1].sent = 2 /\ Answered(llm_calls[1])
    /\ llm_calls[2].sent = 0 /\ llm_calls[2].ret = llm_calls[1].ret
    /\ TimesSent(llm_calls[1].prompt) = 2

----------------------------------------------------------------------------
\* Specification SpecRetry: LLM_Manager._invoke_llm under its retry decorator,
\* one attempt at a time.  llm_step is the call in progress or the last one
\* ended: its prompt, the number of the next attempt, the outcome of every
\* attempt made, and what the call returned or raised.

RetryPrompts ==
    {build_prompt(mv) :
        mv \in UNION {MaskedVideos(v) : v \in {x \in RunVideos : Len(x.clips) = 1}}}

\* What one generate_content call can end with.
AttemptOutcomes ==
    {Raise(t) : t \in TransientErrors \cup {"InvalidArgument"}}
    \cup {GenerateContentResponse(Str("empty", <<>>)),
          GenerateContentResponse(Str("list", <<[index |-> 0, caption |-> "X"]>>))}

InitRetry ==
    /\ llm_model = LLM_Manager("gemini", 0, "system")
    /\ disk_cache = {} /\ invocations = <<>> /\ llm_calls = <<>> /\ llm_step = Unset
    /\ clips = <<>> /\ video = Unset
    /\ strategy = Unset /\ twin = Unset /\ calls = <<>> /\ twin_calls = <<>>
    /\ generators = <<>>
    /\ masked_video = Unset /\ masked_indices = Unset /\ applied = Unset
    /\ reconstructed = Unset /\ num_clips = 0 /\ masking_configs = Unset
    /\ strategies = Unset /\ masks = <<>>
    /\ IdleEval /\ IdleRun /\ IdleLock

\* self._invoke_llm(prompt) is entered.
InvokeLLM ==
    /\ IF llm_step = Unset THEN TRUE ELSE llm_step.ret # Unset
    /\ Len(llm_calls) < MaxCalls
    /\ \E prompt \in RetryPrompts :
          llm_step' = [prompt |-> prompt, attempt_number |-> 1, outcomes |-> <<>>,
                       sent_before |-> Len(invocations), ret |-> Unset]
    /\ UNCHANGED <<lock_vars, eval_vars, run_vars, llm_model, disk_cache, invocations,
                   llm_calls, clips, video, strategy, twin, calls, twin_calls,
                   generators, masked_video, masked_indices, applied, reconstructed,
                   num_clips, masking_configs, strategies, masks>>

\* One attempt: generate_content is called and the decorator decides.
Attempt ==
    /\ llm_step # Unset /\ llm_step.ret = Unset
    /\ \E outcome \in AttemptOutcomes :
          LET d == retry_iter(llm_step.attempt_number, outcome)
              outcomes == Append(llm_step.outcomes, outcome)
          IN  /\ invocations' = Append(invocations, llm_step.prompt)
              /\ IF d.do = "sleep"
                 THEN /\ llm_step' = [llm_step EXCEPT
                                        !.attempt_number = @ + 1,
                                        !.outcomes = outcomes]
                      /\ llm_calls' = llm_calls
                 ELSE /\ llm_step' = [llm_step EXCEPT !.outcomes = outcomes,
                                                      !.ret = d.ret]
                      /\ llm_calls' = Append(llm_calls,
                            [prompt |-> llm_step.prompt, ret |-> d.ret,
                             sent |-> Len(outcomes)])
    /\ UNCHANGED <<lock_vars, eval_vars, run_vars, llm_model, disk_cache, clips, video,
                   strategy, twin, calls, twin_calls, generators, masked_video,
                   masked_indices, applied, reconstructed, num_clips,
                   masking_configs, strategies, masks>>

NextRetry == InvokeLLM \/ Attempt

SpecRetry == InitRetry /\ [][NextRetry]_vars

IsTransient(outcome) == outcome.kind = "raise" /\ outcome.type \in TransientErrors

\* C21: the oracle call is repeated only after a failure of a transient class
\* (rate limit, server 5xx) and is made at most six times in one
\* _invoke_llm; after six transient failures RetryError is raised; an exception
\* of another class is raised to the caller by the invocation that met it (a
\* first invocation that meets one is the only invocation), and a response on
\* attempt k is returned with no further invocation.
RetriesOnlyTransientUpToSix ==
    llm_step # Unset =>
        LET h == llm_step.outcomes
            n == Len(h)
        IN  /\ n <= MaxAttempts
            /\ Len(invocations) - llm_step.sent_before = n
            /\ \A i \in 1 .. n - 1 : IsTransient(h[i])
            /\ (n >= 1 /\ ~IsTransient(h[1])) => llm_step.ret = h[1] /\ n = 1
            /\ llm_step.ret = Unset =>
                  /\ n < MaxAttempts
                  /\ llm_step.attempt_number = n + 1
                  /\ n >= 1 => IsTransient(h[n])
            /\ llm_step.ret # Unset =>
                  /\ n >= 1
                  /\ IsTransient(h[n]) =>
                        n = MaxAttempts /\ llm_step.ret = Raise("RetryError")
                  /\ ~IsTransient(h[n]) => llm_step.ret = h[n]

\* Six invocations, failures of both transient classes among them, ended in
\* RetryError.
WitnessSixAttemptsThenRetryError ==
    /\ llm_step # Unset /\ llm_step.ret = Raise("RetryError")
    /\ Len(llm_step.outcomes) = MaxAttempts
    /\ Len(invocations) = MaxAttempts
    /\ \A t \in TransientErrors : Raise(t) \in ToSet(llm_step.outcomes)

----------------------------------------------------------------------------
\* Specification SpecLock: orchestrator processes started concurrently, each
\* running main(): take the lock, run every experiment of the batch, leave the
\* `with` block.  What runner.run() does is left open here: it returns, or an
\* exception leaves the `with` block (the two-value unpacking of line 67
\* included).

Procs == 1 .. MaxProcs

InitLock ==
    /\ lock = {}
    /\ lock_file = [p \in Procs |-> "None"]
    /\ pc = [p \in Procs |-> "main"]
    /\ batch \in [Procs -> [experiments : 0 .. MaxRuns, done : {0}]]
    /\ clips = <<>> /\ video = Unset
    /\ strategy = Unset /\ twin = Unset /\ calls = <<>> /\ twin_calls = <<>>
    /\ generators = <<>>
    /\ masked_video = Unset /\ masked_indices = Unset /\ applied = Unset
    /\ reconstructed = Unset /\ num_clips = 0 /\ masking_configs = Unset
    /\ strategies = Unset /\ masks = <<>>
    /\ IdleLLM /\ IdleEval /\ IdleRun

LockUnchanged ==
    UNCHANGED <<llm_vars, eval_vars, run_vars, clips, video, strategy, twin, calls,
                twin_calls, generators, masked_video, masked_indices, applied,
                reconstructed, num_clips, masking_configs, strategies, masks>>

\* main() reaches the `with`: the lock file is opened and the process blocks.
Enter(p) ==
    /\ pc[p] = "main"
    /\ lock_file' = QueueLock_open(lock_file, p)
    /\ pc' = [pc EXCEPT ![p] = "acquire"]
    /\ UNCHANGED <<lock, batch>>
    /\ LockUnchanged

\* The blocking flock returns.
Acquire(p) ==
    /\ pc[p] = "acquire"
    /\ flock_granted(lock, p)
    /\ lock' = lock \cup {p}
    /\ pc' = [pc EXCEPT ![p] = "batch"]
    /\ UNCHANGED <<lock_file, batch>>
    /\ LockUnchanged

\* The loop of line 62 starts the next runner.run().
BeginRun(p) ==
    /\ pc[p] = "batch"
    /\ batch[p].done < batch[p].experiments
    /\ pc' = [pc EXCEPT ![p] = "run"]
    /\ UNCHANGED <<lock, lock_file, batch>>
    /\ LockUnchanged

\* runner.run() and the rest of the loop body end: normally, or with an
\* exception that unwinds main().
EndRun(p) ==
    /\ pc[p] = "run"
    /\ batch' = [batch EXCEPT ![p].done = @ + 1]
    /\ \E raised \in BOOLEAN :
          pc' = [pc EXCEPT ![p] = IF raised THEN "unwind" ELSE "batch"]
    /\ UNCHANGED <<lock, lock_file>>
    /\ LockUnchanged

\* The `with` block is left, after the last experiment or by the exception.
Release(p) ==
    /\ \/ pc[p] = "batch" /\ batch[p].done = batch[p].experiments
       \/ pc[p] = "unwind"
    /\ LET r == QueueLock_release(lock, lock_file, p)
       IN  lock' = r.lock /\ lock_file' = r.lock_file
    /\ pc' = [pc EXCEPT ![p] = IF pc[p] = "unwind" THEN "failed" ELSE "done"]
    /\ UNCHANGED batch
    /\ LockUnchanged

NextLock ==
    \E p \in Procs :
        Enter(p) \/ Acquire(p) \/ BeginRun(p) \/ EndRun(p) \/ Release(p)

SpecLock == InitLock /\ [][NextLock]_vars

\* A process that can take a step of main() eventually takes it: a blocked
\* flock returns once the lock is free for good, a run ends, and the `with`
\* block is left.
SpecLockFair ==
    /\ SpecLock
    /\ \A p \in Procs :
          /\ WF_vars(Acquire(p)) /\ WF_vars(BeginRun(p))
          /\ WF_vars(EndRun(p)) /\ WF_vars(Release(p))

MutualExclusion == Cardinality(lock) <= 1

\* The lock is held from before the first run until after the last run made.
HeldForWholeBatch ==
    \A p \in Procs :
        /\ pc[p] \in {"batch", "run", "unwind"} => p \in lock
        /\ pc[p] \in {"main", "acquire"} => batch[p].done = 0 /\ p \notin lock
        /\ pc[p] = "done" => batch[p].done = batch[p].experiments

\* C22: of the orchestrator processes started concurrently at most one holds
\* the batch lock at any time; a process holds it from before its first
\* experiment run until after its last one, not per run; and a process blocked
\* in acquire obtains the lock once the holders before it have released it.
BatchLockSerialisesOrchestrators ==
    /\ [](MutualExclusion /\ HeldForWholeBatch)
    /\ \A p \in Procs : (pc[p] = "acquire") ~> (p \in lock)

\* One process is between two runs of its batch, holding the lock, while
\* another is blocked in acquire.
WitnessBlockedWhileBatchRuns ==
    \E p, q \in Procs :
        /\ p # q /\ lock = {p}
        /\ pc[p] = "batch" /\ batch[p].done = 1 /\ batch[p].experiments = 2
        /\ pc[q] = "acquire" /\ lock_file[q] = "open"
====
